---- MODULE Spec2Model ----
(***************************************************************************)
(* Model of formdata-io's server side ingestion: parseMultipart, its       *)
(* helpers normalizeField and autoParse, and the decoder (busboy) events   *)
(* it subscribes to.  The parser modelled is the current one               *)
(* (src/unnamed/part_009), which matches src/src/server/types.ts.          *)
(*                                                                         *)
(* JavaScript strings are sequences of one-character strings.  JavaScript  *)
(* values are tagged records [t |-> tag, v |-> content]:                   *)
(*   "str"  v a character sequence          "num"  v an integer            *)
(*   "inf"  v = 1 (Infinity) or -1          "bool" v a BOOLEAN             *)
(*   "null" v = 0                           "arr"  v a sequence of values  *)
(*   "obj"  v a sequence of [k, v] members  "file" v a ParsedFile record   *)
(***************************************************************************)
EXTENDS Integers, Sequences, FiniteSets, TLC

(***************************************************************************)
(* Bounds of the model.                                                    *)
(***************************************************************************)
\* number of field events the decoder may deliver
MaxFieldEvents == 2
\* number of file events the decoder may deliver
MaxFileEvents == 2
\* number of file bytes the request body may carry
MaxBytes == 3
\* longest chunk a file sub-stream delivers at once
MaxChunk == 2

(***************************************************************************)
(* Strings.                                                                *)
(***************************************************************************)
Digits == <<"0", "1", "2", "3", "4", "5", "6", "7", "8", "9">>

IsDigit(c) == \E i \in 1..10 : Digits[i] = c

DigitVal(c) == (CHOOSE i \in 1..10 : Digits[i] = c) - 1

\* the white space of the modelled alphabet
IsSpace(c) == c = " "

startsWith(s, c) == Len(s) >= 1 /\ s[1] = c

endsWith(s, c) == Len(s) >= 1 /\ s[Len(s)] = c

RECURSIVE trimStart(_)
trimStart(s) ==
    IF s # <<>> /\ IsSpace(Head(s)) THEN trimStart(Tail(s)) ELSE s

RECURSIVE trimEnd(_)
trimEnd(s) ==
    IF s # <<>> /\ IsSpace(s[Len(s)])
    THEN trimEnd(SubSeq(s, 1, Len(s) - 1))
    ELSE s

trim(s) == trimEnd(trimStart(s))

\* the characters of s from position i on
From(s, i) == SubSeq(s, i, Len(s))

\* s has the characters of word w at position i
HasAt(s, i, w) == i + Len(w) - 1 <= Len(s) /\ SubSeq(s, i, i + Len(w) - 1) = w

RECURSIVE SkipSpace(_, _)
SkipSpace(s, i) ==
    IF i <= Len(s) /\ IsSpace(s[i]) THEN SkipSpace(s, i + 1) ELSE i

\* the position after the digits that start at i
RECURSIVE SkipDigits(_, _)
SkipDigits(s, i) ==
    IF i <= Len(s) /\ IsDigit(s[i]) THEN SkipDigits(s, i + 1) ELSE i

\* the value of the digit string s
RECURSIVE DigitsValue(_)
DigitsValue(s) ==
    IF s = <<>> THEN 0
    ELSE 10 * DigitsValue(SubSeq(s, 1, Len(s) - 1)) + DigitVal(s[Len(s)])

(***************************************************************************)
(* JavaScript values.                                                      *)
(***************************************************************************)
Undefined == [t |-> "undefined", v |-> 0]

Null == [t |-> "null", v |-> 0]

Str(s) == [t |-> "str", v |-> s]

Num(n) == [t |-> "num", v |-> n]

Inf(sign) == [t |-> "inf", v |-> sign]

Bool(b) == [t |-> "bool", v |-> b]

Arr(xs) == [t |-> "arr", v |-> xs]

Obj(ms) == [t |-> "obj", v |-> ms]

FileVal(f) == [t |-> "file", v |-> f]

\* a property inherited from Object.prototype
Builtin(k) == [t |-> "builtin", v |-> k]

\* an exception that leaves the function
Thrown == [t |-> "throw", v |-> 0]

isArray(x) == x.t = "arr"

isUndefined(x) == x.t = "undefined"

\* the names every object literal inherits from Object.prototype
ObjectPrototype ==
    { <<"c","o","n","s","t","r","u","c","t","o","r">>,
      <<"t","o","S","t","r","i","n","g">>,
      <<"v","a","l","u","e","O","f">>,
      <<"_","_","p","r","o","t","o","_","_">> }

\* a key that JavaScript orders as an integer index: "0", "1", "25", ...
IsArrayIndex(k) ==
    /\ k # <<>>
    /\ \A i \in 1..Len(k) : IsDigit(k[i])
    /\ (Len(k) > 1 => k[1] # "0")

\* the name of the accessor Object.prototype.__proto__
ProtoName == <<"_","_","p","r","o","t","o","_","_">>

\* the member that holds the prototype of an object whose prototype was
\* replaced; no property has this name
ProtoSlot == <<"[[Prototype]]">>

\* names an array inherits from Array.prototype
ArrayPrototype == { <<"p","u","s","h">>, <<"m","a","p">> }

HasOwn(ms, k) == \E i \in 1..Len(ms) : ms[i].k = k

Own(ms, k) == ms[CHOOSE i \in 1..Len(ms) : ms[i].k = k].v

\* obj[k]: the own property, else the inherited one, else undefined; the
\* prototype is Object.prototype, or the array that replaced it
Get(ms, k) ==
    IF HasOwn(ms, k) THEN Own(ms, k)
    ELSE IF HasOwn(ms, ProtoSlot)
    THEN LET proto == Own(ms, ProtoSlot).v
         IN  IF k = ProtoName THEN Arr(proto)
             ELSE IF k = <<"l","e","n","g","t","h">> THEN Num(Len(proto))
             ELSE IF IsArrayIndex(k) /\ DigitsValue(k) < Len(proto)
             THEN proto[DigitsValue(k) + 1]
             ELSE IF k \in ArrayPrototype \cup ObjectPrototype THEN Builtin(k)
             ELSE Undefined
    ELSE IF k \in ObjectPrototype THEN Builtin(k)
    ELSE Undefined

\* where a new key k goes among the members ms: integer indices come first,
\* in ascending order, then the other keys in insertion order
InsertAt(ms, k) ==
    IF IsArrayIndex(k)
    THEN 1 + Cardinality({i \in 1..Len(ms) :
                 IsArrayIndex(ms[i].k) /\ DigitsValue(ms[i].k) < DigitsValue(k)})
    ELSE Len(ms) + 1

\* obj[k] = x on an ordinary object
Set(ms, k, x) ==
    IF HasOwn(ms, k)
    THEN [i \in 1..Len(ms) |-> IF ms[i].k = k THEN [k |-> k, v |-> x] ELSE ms[i]]
    ELSE LET p == InsertAt(ms, k)
         IN  SubSeq(ms, 1, p - 1) \o <<[k |-> k, v |-> x]>> \o SubSeq(ms, p, Len(ms))

\* the own property names of an object, in the order JavaScript lists them
Keys(ms) ==
    LET own == SelectSeq(ms, LAMBDA m : m.k # ProtoSlot)
    IN  [i \in 1..Len(own) |-> own[i].k]

\* obj[k] = x by assignment: the name __proto__ is the accessor inherited
\* from Object.prototype, which replaces the prototype when x is an object
\* and does nothing otherwise; any other name is an ordinary property
Assign(ms, k, x) ==
    IF k = ProtoName
    THEN IF x.t \in {"arr", "obj", "file", "builtin"}
         THEN Set(ms, ProtoSlot, x)
         ELSE ms
    ELSE Set(ms, k, x)

(***************************************************************************)
(* JSON.parse, for texts without escapes, fractions and negative exponents. *)
(***************************************************************************)
ParseFail == [ok |-> FALSE, val |-> Null, pos |-> 0]

ParseOk(x, p) == [ok |-> TRUE, val |-> x, pos |-> p]

\* the position of the first double quote at or after i, 0 when there is none
RECURSIVE FindQuote(_, _)
FindQuote(s, i) ==
    IF i > Len(s) THEN 0
    ELSE IF s[i] = "\"" THEN i
    ELSE FindQuote(s, i + 1)

\* a string literal whose opening quote is at i
ParseString(s, i) ==
    LET j == FindQuote(s, i + 1)
    IN  IF j = 0 THEN ParseFail ELSE ParseOk(Str(SubSeq(s, i + 1, j - 1)), j + 1)

\* the largest decimal exponent of a finite double: 1e308 is finite, 1e309 is
\* Infinity
MaxDoubleExponent == 308

RECURSIVE Pow10(_)
Pow10(e) == IF e = 0 THEN 1 ELSE 10 * Pow10(e - 1)

\* the number with integer digits of value n (len of them) and exponent ex
Scaled(n, len, ex) ==
    IF n = 0 THEN Num(0)
    ELSE IF ex + len - 1 > MaxDoubleExponent THEN Inf(1)
    ELSE Num(n * Pow10(ex))

\* a number literal at i: -? (0 | [1-9][0-9]*) ([eE] +? [0-9]+)?
ParseNumber(s, i) ==
    LET neg == s[i] = "-"
        d   == IF neg THEN i + 1 ELSE i
        e   == IF d <= Len(s) /\ s[d] = "0" THEN d + 1 ELSE SkipDigits(s, d)
        n   == DigitsValue(SubSeq(s, d, e - 1))
        exp == e <= Len(s) /\ s[e] \in {"e", "E"}
        xs  == IF e + 1 <= Len(s) /\ s[e + 1] = "+" THEN e + 2 ELSE e + 1
        xe  == SkipDigits(s, xs)
        x   == Scaled(n, e - d, DigitsValue(SubSeq(s, xs, xe - 1)))
    IN  IF e = d THEN ParseFail
        ELSE IF ~exp THEN ParseOk(Num(IF neg THEN 0 - n ELSE n), e)
        ELSE IF xe = xs THEN ParseFail
        ELSE IF x.t = "inf" THEN ParseOk(Inf(IF neg THEN 0 - 1 ELSE 1), xe)
        ELSE ParseOk(Num(IF neg THEN 0 - x.v ELSE x.v), xe)

RECURSIVE ParseValue(_, _), ParseElements(_, _, _), ParseMembers(_, _, _)
ParseValue(s, i0) ==
    LET i == SkipSpace(s, i0)
    IN  IF i > Len(s) THEN ParseFail
        ELSE IF s[i] = "[" THEN
            LET j == SkipSpace(s, i + 1)
            IN  IF j <= Len(s) /\ s[j] = "]" THEN ParseOk(Arr(<<>>), j + 1)
                ELSE ParseElements(s, i + 1, <<>>)
        ELSE IF s[i] = "{" THEN
            LET j == SkipSpace(s, i + 1)
            IN  IF j <= Len(s) /\ s[j] = "}" THEN ParseOk(Obj(<<>>), j + 1)
                ELSE ParseMembers(s, i + 1, <<>>)
        ELSE IF s[i] = "\"" THEN ParseString(s, i)
        ELSE IF HasAt(s, i, <<"t","r","u","e">>) THEN ParseOk(Bool(TRUE), i + 4)
        ELSE IF HasAt(s, i, <<"f","a","l","s","e">>) THEN ParseOk(Bool(FALSE), i + 5)
        ELSE IF HasAt(s, i, <<"n","u","l","l">>) THEN ParseOk(Null, i + 4)
        ELSE IF s[i] = "-" \/ IsDigit(s[i]) THEN ParseNumber(s, i)
        ELSE ParseFail

\* the elements of an array after "[" or ",", acc the elements read so far
ParseElements(s, i, acc) ==
    LET r == ParseValue(s, i)
        j == SkipSpace(s, r.pos)
    IN  IF ~r.ok \/ j > Len(s) THEN ParseFail
        ELSE IF s[j] = "," THEN ParseElements(s, j + 1, Append(acc, r.val))
        ELSE IF s[j] = "]" THEN ParseOk(Arr(Append(acc, r.val)), j + 1)
        ELSE ParseFail

\* the members of an object after "{" or ",", acc the members read so far
ParseMembers(s, i, acc) ==
    LET k == SkipSpace(s, i)
        key == IF k <= Len(s) /\ s[k] = "\"" THEN ParseString(s, k) ELSE ParseFail
        c == SkipSpace(s, key.pos)
        r == IF key.ok /\ c <= Len(s) /\ s[c] = ":"
             THEN ParseValue(s, c + 1) ELSE ParseFail
        j == SkipSpace(s, r.pos)
    IN  IF ~r.ok \/ j > Len(s) THEN ParseFail
        ELSE IF s[j] = "," THEN ParseMembers(s, j + 1, Set(acc, key.val.v, r.val))
        ELSE IF s[j] = "}" THEN ParseOk(Obj(Set(acc, key.val.v, r.val)), j + 1)
        ELSE ParseFail

\* JSON.parse(s): ok is FALSE where JSON.parse throws
JSONparse(s) ==
    LET r == ParseValue(s, 1)
    IN  IF r.ok /\ SkipSpace(s, r.pos) > Len(s)
        THEN [ok |-> TRUE, val |-> r.val]
        ELSE [ok |-> FALSE, val |-> Null]

(***************************************************************************)
(* Number(s), for texts without fractions, exponents and radix prefixes.   *)
(***************************************************************************)
NaN == [t |-> "nan", v |-> 0]

isNaN(x) == x.t = "nan"

\* parseInt(s, 10): the digits the text begins with, whatever follows them
parseInt(s) ==
    LET w == trim(s)
        signed == w # <<>> /\ (w[1] = "-" \/ w[1] = "+")
        neg == w # <<>> /\ w[1] = "-"
        body == IF signed THEN Tail(w) ELSE w
        stop == SkipDigits(body, 1)
    IN  IF stop = 1 THEN NaN
        ELSE Num(IF neg THEN 0 - DigitsValue(SubSeq(body, 1, stop - 1))
                 ELSE DigitsValue(SubSeq(body, 1, stop - 1)))

Number(s) ==
    LET w == trim(s)
        signed == w # <<>> /\ (w[1] = "-" \/ w[1] = "+")
        neg == w # <<>> /\ w[1] = "-"
        body == IF signed THEN Tail(w) ELSE w
    IN  IF w = <<>> THEN Num(0)
        ELSE IF body = <<"I","n","f","i","n","i","t","y">>
             THEN Inf(IF neg THEN 0 - 1 ELSE 1)
        ELSE IF body # <<>> /\ \A i \in 1..Len(body) : IsDigit(body[i])
             THEN Num(IF neg THEN 0 - DigitsValue(body) ELSE DigitsValue(body))
        ELSE NaN

(***************************************************************************)
(* autoParse and normalizeField.                                           *)
(***************************************************************************)
\* autoParse without the try and catch around JSON.parse
autoParseNoCatch(value, options) ==
    LET json == JSONparse(value)
        num == Number(value)
    IN  IF /\ options.autoParseJSON
           /\ \/ startsWith(value, "{") /\ endsWith(value, "}")
              \/ startsWith(value, "[") /\ endsWith(value, "]")
        THEN IF json.ok THEN json.val ELSE Thrown
        ELSE IF options.autoParseNumbers /\ ~isNaN(num) /\ trim(value) # <<>>
        THEN num
        ELSE IF options.autoParseBooleans /\ value = <<"t","r","u","e">>
        THEN Bool(TRUE)
        ELSE IF options.autoParseBooleans /\ value = <<"f","a","l","s","e">>
        THEN Bool(FALSE)
        ELSE Str(value)

\* autoParse without the test of the trimmed value: '' becomes 0
autoParseEmptyIsZero(value, options) ==
    LET json == JSONparse(value)
        num == Number(value)
    IN  IF /\ options.autoParseJSON
           /\ \/ startsWith(value, "{") /\ endsWith(value, "}")
              \/ startsWith(value, "[") /\ endsWith(value, "]")
           /\ json.ok
        THEN json.val
        ELSE IF options.autoParseNumbers /\ ~isNaN(num)
        THEN num
        ELSE IF options.autoParseBooleans /\ value = <<"t","r","u","e">>
        THEN Bool(TRUE)
        ELSE IF options.autoParseBooleans /\ value = <<"f","a","l","s","e">>
        THEN Bool(FALSE)
        ELSE Str(value)

\* autoParse with the boolean step first and '1' and '0' taken for booleans
autoParseIntegerBooleans(value, options) ==
    LET json == JSONparse(value)
        num == Number(value)
    IN  IF /\ options.autoParseJSON
           /\ \/ startsWith(value, "{") /\ endsWith(value, "}")
              \/ startsWith(value, "[") /\ endsWith(value, "]")
           /\ json.ok
        THEN json.val
        ELSE IF options.autoParseBooleans /\ value \in {<<"t","r","u","e">>, <<"1">>}
        THEN Bool(TRUE)
        ELSE IF options.autoParseBooleans /\ value \in {<<"f","a","l","s","e">>, <<"0">>}
        THEN Bool(FALSE)
        ELSE IF options.autoParseNumbers /\ ~isNaN(num) /\ trim(value) # <<>>
        THEN num
        ELSE Str(value)

\* autoParse with the two boolean results exchanged
autoParseSwapped(value, options) ==
    LET json == JSONparse(value)
        num == Number(value)
    IN  IF /\ options.autoParseJSON
           /\ \/ startsWith(value, "{") /\ endsWith(value, "}")
              \/ startsWith(value, "[") /\ endsWith(value, "]")
           /\ json.ok
        THEN json.val
        ELSE IF options.autoParseNumbers /\ ~isNaN(num) /\ trim(value) # <<>>
        THEN num
        ELSE IF options.autoParseBooleans /\ value = <<"t","r","u","e">>
        THEN Bool(FALSE)
        ELSE IF options.autoParseBooleans /\ value = <<"f","a","l","s","e">>
        THEN Bool(TRUE)
        ELSE Str(value)

\* autoParse with the number step under the flag of the boolean step
autoParseSharedFlag(value, options) ==
    LET json == JSONparse(value)
        num == Number(value)
    IN  IF /\ options.autoParseJSON
           /\ \/ startsWith(value, "{") /\ endsWith(value, "}")
              \/ startsWith(value, "[") /\ endsWith(value, "]")
           /\ json.ok
        THEN json.val
        ELSE IF options.autoParseBooleans /\ ~isNaN(num) /\ trim(value) # <<>>
        THEN num
        ELSE IF options.autoParseBooleans /\ value = <<"t","r","u","e">>
        THEN Bool(TRUE)
        ELSE IF options.autoParseBooleans /\ value = <<"f","a","l","s","e">>
        THEN Bool(FALSE)
        ELSE Str(value)

autoParse(value, options) ==
    LET json == JSONparse(value)
        num == Number(value)
    IN  IF /\ options.autoParseJSON
           /\ \/ startsWith(value, "{") /\ endsWith(value, "}")
              \/ startsWith(value, "[") /\ endsWith(value, "]")
           /\ json.ok
        THEN json.val
        ELSE IF options.autoParseNumbers /\ ~isNaN(num) /\ trim(value) # <<>>
        THEN num
        ELSE IF options.autoParseBooleans /\ value = <<"t","r","u","e">>
        THEN Bool(TRUE)
        ELSE IF options.autoParseBooleans /\ value = <<"f","a","l","s","e">>
        THEN Bool(FALSE)
        ELSE Str(value)

\* the payload after normalizeField(payload, fieldname, value)
normalizeField(payload, fieldname, value) ==
    LET existing == Get(payload, fieldname)
    IN  IF ~isUndefined(existing)
        THEN IF isArray(existing)
             THEN Assign(payload, fieldname, Arr(Append(existing.v, value)))
             ELSE Assign(payload, fieldname, Arr(<<existing, value>>))
        ELSE Assign(payload, fieldname, value)

(***************************************************************************)
(* Options.                                                                *)
(***************************************************************************)
\* the number Infinity; larger than any byte count the model reaches
Infinity == 1000000000

DefaultMaxFileSize == 10485760

DefaultMaxFiles == 10

DefaultMaxFields == 100

DefaultMaxFieldSize == 65536

DEFAULT_OPTIONS ==
    [maxFileSize |-> DefaultMaxFileSize,
     maxFiles |-> DefaultMaxFiles,
     maxFields |-> DefaultMaxFields,
     maxFieldSize |-> DefaultMaxFieldSize,
     maxTotalFileSize |-> Infinity,
     autoParseJSON |-> TRUE,
     autoParseNumbers |-> TRUE,
     autoParseBooleans |-> TRUE]

\* an option whose value is undefined; no number of the model is negative
UndefinedOption == 0 - 1

\* a > limit, which is false when limit is undefined: undefined compares as
\* NaN
GreaterThan(a, limit) == limit # UndefinedOption /\ a > limit

\* { ...options, ...defaults }: the defaults win
MergeDefaultsLast(defaults, options) ==
    [k \in DOMAIN defaults \cup DOMAIN options |->
        IF k \in DOMAIN defaults THEN defaults[k] ELSE options[k]]

\* { ...defaults, ...options }
Merge(defaults, options) ==
    [k \in DOMAIN defaults \cup DOMAIN options |->
        IF k \in DOMAIN options THEN options[k] ELSE defaults[k]]

\* the options the callers of the model pass: a file count of one, two files
\* with no total size limit, two files with a total size limit
OptionChoices ==
    { [maxFileSize |-> 2, maxFiles |-> 1, maxFields |-> 1, maxFieldSize |-> 1],
      [maxFileSize |-> 2, maxFiles |-> 2, maxFields |-> 1, maxFieldSize |-> 1],
      [maxFileSize |-> 2, maxFiles |-> 2, maxFields |-> 1, maxFieldSize |-> 1,
       maxTotalFileSize |-> 2] }

\* the content-type headers of the requests: none, '', a non-string, and
\* strings of four kinds
ContentTypes ==
    { "absent", "empty", "array", "application/json",
      "application/x-www-form-urlencoded", "multipart/form-data",
      "multipart/form-data; boundary=x" }

\* !contentType || typeof contentType !== 'string'
MissingOrInvalid(ct) == ct \in {"absent", "empty", "array"}

\* Busboy({ headers, limits }) returns a decoder for a multipart declaration
\* with a boundary and for a urlencoded one, and throws for any other
BusboyAccepts(ct) ==
    ct \in {"multipart/form-data; boundary=x", "application/x-www-form-urlencoded"}

FieldNames == { <<"a">> }

FieldValues == { <<"x">>, <<"2", "5">> }

FileNames == { <<"a">> }

(***************************************************************************)
(* The state of one parseMultipart call.                                   *)
(***************************************************************************)
VARIABLES
    contentType,    \* req.headers['content-type']
    opts,           \* the merged options
    pc,             \* "called", "running", "finished" or "returned", and
                    \* "idle" before the middleware calls; for a
                    \* lone autoParse "autoParse", "coerced", "recoerced"
    registered,     \* the decoder exists and the handlers are registered
    piped,          \* req.pipe(busboy) was called
    payload,        \* the members of the payload object
    files,          \* the ParsedFile records, in the order the files ended
    fileCount,
    hasError,
    totalFileSize,
    streams,        \* the file sub-streams, in the order of the file events
    promise,        \* the promise parseMultipart returns
    firstRaised,    \* the reason of the first reject call, "none" before it
    fieldEvents,    \* the number of field events delivered
    longField,      \* a field value longer than maxFieldSize was delivered
    arrivals,       \* history: the field and file events delivered, in
                    \* their order, where a specification observes them
    cin,            \* the string autoParse is applied to on its own
    cout,           \* what autoParse returned for cin
    cback,          \* what autoParse returned for the text of cout
    mw,             \* the position of the parser() middleware: "none"
                    \* without it, else "entered", "awaiting", "done" when
                    \* its promise is fulfilled, "rejected" when it rejects
    nextCalls,      \* the arguments of the calls of next, in their order
    reqPayload,     \* req.payload
    calls,          \* the closures of the parseMultipart calls that run side
                    \* by side, where a specification has more than one
    hists,          \* history: the events delivered to each of these calls
    defaults,       \* the module's DEFAULT_OPTIONS object
    inputs,         \* the inputs storage.uploadMany is given
    uploadOptions,  \* the options storage.uploadMany is given
    uploads,        \* the promise of upload(input) for each input
    settled,        \* history: the inputs whose upload settled, in the
                    \* order in which they did
    many,           \* the promise of uploadMany, state "none" before the call
    data,           \* the members of the object the client passes to payload()
    formData,       \* the entries of the FormData the client sends
    s3ModulePromise,    \* the module's cache of the SDK: 0 for null, else
                        \* the position of the load in loads
    clientPromise,  \* the adapter's cache of the client: 0 for null, else
                    \* the position of the promise in clients
    loads,          \* the promises loadS3 created, in their order
    clients,        \* the promises getClient created, in their order
    ops             \* the upload and delete calls on the adapter

\* the variables of a lone application of autoParse
coerceVars == <<cin, cout, cback>>

\* the variables of the parser() middleware
mwVars == <<mw, nextCalls, reqPayload>>

\* the variables of the calls that run side by side
pairVars == <<calls, hists, defaults>>

\* the variables of storage.uploadMany
storageVars == <<inputs, uploadOptions, uploads, settled, many>>

\* the variables of the client
clientVars == <<data, formData>>

\* the variables of the AWS provider
awsVars == <<s3ModulePromise, clientPromise, loads, clients, ops>>

vars == <<contentType, opts, pc, registered, piped, payload, files, fileCount,
          hasError, totalFileSize, streams, promise, firstRaised, fieldEvents,
          longField, arrivals, coerceVars, mwVars, pairVars, storageVars, clientVars, awsVars>>

Pending == [state |-> "pending", reason |-> "none", value |-> <<>>]

\* the promise of a function that has not been called
NotCalled == [state |-> "none", reason |-> "none", value |-> <<>>]

\* reject(reason): a settled promise ignores it
Reject(p, reason) ==
    IF p.state = "pending"
    THEN [state |-> "rejected", reason |-> reason, value |-> <<>>]
    ELSE p

\* a resolve that settles the promise again
ResolveAgain(p, value) ==
    [state |-> "resolved", reason |-> "none", value |-> value]

\* resolve(value): a settled promise ignores it
Resolve(p, value) ==
    IF p.state = "pending"
    THEN [state |-> "resolved", reason |-> "none", value |-> value]
    ELSE p

\* the history of the reject calls
Raised(first, reason) == IF first = "none" THEN reason ELSE first

Init ==
    /\ contentType \in ContentTypes
    /\ opts \in {Merge(DEFAULT_OPTIONS, o) : o \in OptionChoices}
    /\ pc = "called"
    /\ registered = FALSE
    /\ piped = FALSE
    /\ payload = <<>>
    /\ files = <<>>
    /\ fileCount = 0
    /\ hasError = FALSE
    /\ totalFileSize = 0
    /\ streams = <<>>
    /\ promise = Pending
    /\ firstRaised = "none"
    /\ fieldEvents = 0
    /\ longField = FALSE
    /\ arrivals = <<>>
    /\ cin = <<>>
    /\ cout = Undefined
    /\ cback = Undefined
    /\ mw = "none"
    /\ nextCalls = <<>>
    /\ reqPayload = Undefined
    /\ calls = <<>>
    /\ hists = <<>>
    /\ defaults = DEFAULT_OPTIONS
    /\ inputs = <<>>
    /\ uploadOptions = <<>>
    /\ uploads = <<>>
    /\ settled = <<>>
    /\ many = NotCalled
    /\ data = <<>>
    /\ formData = <<>>
    /\ s3ModulePromise = 0
    /\ clientPromise = 0
    /\ loads = <<>>
    /\ clients = <<>>
    /\ ops = <<>>

(***************************************************************************)
(* The call: the content-type check, the decoder, the handlers, the pipe.  *)
(***************************************************************************)
\* the synchronous part of parseMultipart(req, options): the executor of the
\* promise
Invoke ==
    /\ IF MissingOrInvalid(contentType)
       THEN /\ promise' = Reject(promise, "MissingContentType")
            /\ firstRaised' = Raised(firstRaised, "MissingContentType")
            /\ pc' = "returned"
            /\ UNCHANGED <<registered, piped>>
       ELSE IF ~BusboyAccepts(contentType)
       THEN \* Busboy throws inside the executor: the promise is rejected
            /\ promise' = Reject(promise, "DecoderThrew")
            /\ firstRaised' = Raised(firstRaised, "DecoderThrew")
            /\ pc' = "returned"
            /\ UNCHANGED <<registered, piped>>
       ELSE /\ registered' = TRUE
            /\ piped' = TRUE
            /\ pc' = "running"
            /\ UNCHANGED <<promise, firstRaised>>
    /\ UNCHANGED <<contentType, opts, payload, files, fileCount, hasError,
                   totalFileSize, streams, fieldEvents, longField>>
    /\ UNCHANGED <<arrivals, coerceVars, pairVars, storageVars, clientVars, awsVars>>

\* parseMultipart called on its own
Call ==
    /\ pc = "called"
    /\ Invoke
    /\ UNCHANGED mwVars

(***************************************************************************)
(* busboy.on('field')                                                      *)
(***************************************************************************)
\* the payload after the field handler
FieldHandler(pl, fieldname, value, options) ==
    normalizeField(pl, fieldname, autoParse(value, options))

Field(fieldname, value) ==
    /\ pc = "running"
    /\ fieldEvents < MaxFieldEvents
    /\ payload' = FieldHandler(payload, fieldname, value, opts)
    /\ fieldEvents' = fieldEvents + 1
    /\ longField' = (longField \/ Len(value) > opts.maxFieldSize)
    /\ UNCHANGED <<contentType, opts, pc, registered, piped, files, fileCount,
                   hasError, totalFileSize, streams, promise, firstRaised>>
    /\ UNCHANGED <<coerceVars, mwVars, pairVars, storageVars, clientVars, awsVars>>

(***************************************************************************)
(* busboy.on('file')                                                       *)
(***************************************************************************)
\* a sub-stream as busboy hands it over: paused, nothing read
NewStream(fieldname, n) ==
    [fieldname |-> fieldname,
     info |-> [filename |-> n, encoding |-> "7bit", mimeType |-> "text/plain"],
     status |-> "open",
     flowing |-> FALSE,
     listening |-> FALSE,
     offset |-> 0,
     size |-> 0,
     chunks |-> <<>>,
     fileSizeExceeded |-> FALSE]

\* file.resume()
Resume(f) == [f EXCEPT !.flowing = TRUE]

\* file.on('data'), file.on('end'), file.on('error'): a data listener makes
\* the stream flow
Listen(f) == [f EXCEPT !.listening = TRUE, !.flowing = TRUE]

\* the file count check off by one
TooManyFilesOffByOne(count, options) == GreaterThan(count, options.maxFiles + 1)

\* the sub-stream after a file handler that forgets file.resume()
FileStreamNoResume(f, count, options) ==
    IF GreaterThan(count, options.maxFiles) THEN f ELSE Listen(f)

\* the file is over the file count: fileCount > opts.maxFiles
TooManyFiles(count, options) == GreaterThan(count, options.maxFiles)

\* the sub-stream after the file handler
FileStream(f, count, options) ==
    IF TooManyFiles(count, options) THEN Resume(f) ELSE Listen(f)

\* only a multipart body has file parts
File(fieldname) ==
    /\ pc = "running"
    /\ contentType = "multipart/form-data; boundary=x"
    /\ Len(streams) < MaxFileEvents
    /\ fileCount' = fileCount + 1
    /\ streams' = Append(streams,
           FileStream(NewStream(fieldname, Len(streams) + 1), fileCount', opts))
    /\ IF TooManyFiles(fileCount', opts)
       THEN /\ hasError' = TRUE
            /\ promise' = Reject(promise, "TooManyFiles")
            /\ firstRaised' = Raised(firstRaised, "TooManyFiles")
       ELSE UNCHANGED <<hasError, promise, firstRaised>>
    /\ UNCHANGED <<contentType, opts, pc, registered, piped, payload, files,
                   totalFileSize, fieldEvents, longField>>
    /\ UNCHANGED <<coerceVars, mwVars, pairVars, storageVars, clientVars, awsVars>>

(***************************************************************************)
(* file.on('data')                                                         *)
(***************************************************************************)
\* the bytes of a chunk of len bytes read at offset: offset+1 .. offset+len
Chunk(offset, len) == [i \in 1..len |-> offset + i]

\* the bytes all the sub-streams have delivered
RECURSIVE Delivered(_)
Delivered(ss) ==
    IF ss = <<>> THEN 0 ELSE Head(ss).offset + Delivered(Tail(ss))

\* the outcome of a data listener whose tests of the two sizes fire fileSlack
\* and totalSlack bytes early, and which buffers the chunk before the tests
\* when early is TRUE
DataListenerWith(f, len, err, total, options, fileSlack, totalSlack, early) ==
    LET size == f.size + len
        sum == total + len
        read == [f EXCEPT !.offset = f.offset + len,
                          !.chunks = IF early /\ ~err /\ ~f.fileSizeExceeded
                                     THEN Append(f.chunks, Chunk(f.offset, len))
                                     ELSE f.chunks]
    IN  IF err \/ f.fileSizeExceeded
        THEN [f |-> read, hasError |-> err, totalFileSize |-> total,
              raise |-> "none"]
        ELSE IF GreaterThan(size + fileSlack, options.maxFileSize)
        THEN [f |-> Resume([read EXCEPT !.size = size, !.fileSizeExceeded = TRUE]),
              hasError |-> TRUE, totalFileSize |-> sum,
              raise |-> "FileTooLarge"]
        ELSE IF options.maxTotalFileSize # Infinity
                /\ GreaterThan(sum + totalSlack, options.maxTotalFileSize)
        THEN [f |-> Resume([read EXCEPT !.size = size, !.fileSizeExceeded = TRUE]),
              hasError |-> TRUE, totalFileSize |-> sum,
              raise |-> "TotalSizeExceeded"]
        ELSE [f |-> [read EXCEPT !.size = size,
                                 !.chunks = IF early THEN read.chunks
                                            ELSE Append(f.chunks, Chunk(f.offset, len))],
              hasError |-> err, totalFileSize |-> sum, raise |-> "none"]

\* a data listener that pushes the chunk before it tests the sizes
DataListenerPushFirst(f, len, err, total, options) ==
    DataListenerWith(f, len, err, total, options, 0, 0, TRUE)

\* a data listener whose per-file test is size >= maxFileSize
DataListenerFileGE(f, len, err, total, options) ==
    DataListenerWith(f, len, err, total, options, 1, 0, FALSE)

\* a data listener whose total test is totalFileSize >= maxTotalFileSize
DataListenerTotalGE(f, len, err, total, options) ==
    DataListenerWith(f, len, err, total, options, 0, 1, FALSE)

\* the outcome of the data listener on sub-stream f for a chunk of len bytes:
\* the sub-stream, the two shared variables and the failure raised, if any
DataListener(f, len, err, total, options) ==
    LET size == f.size + len
        sum == total + len
        read == [f EXCEPT !.offset = f.offset + len]
    IN  IF err \/ f.fileSizeExceeded
        THEN [f |-> read, hasError |-> err, totalFileSize |-> total,
              raise |-> "none"]
        ELSE IF GreaterThan(size, options.maxFileSize)
        THEN [f |-> Resume([read EXCEPT !.size = size, !.fileSizeExceeded = TRUE]),
              hasError |-> TRUE, totalFileSize |-> sum,
              raise |-> "FileTooLarge"]
        ELSE IF options.maxTotalFileSize # Infinity
                /\ GreaterThan(sum, options.maxTotalFileSize)
        THEN [f |-> Resume([read EXCEPT !.size = size, !.fileSizeExceeded = TRUE]),
              hasError |-> TRUE, totalFileSize |-> sum,
              raise |-> "TotalSizeExceeded"]
        ELSE [f |-> [read EXCEPT !.size = size,
                                 !.chunks = Append(f.chunks, Chunk(f.offset, len))],
              hasError |-> err, totalFileSize |-> sum, raise |-> "none"]

\* a multipart body carries its parts one after another: the bytes the decoder
\* reads belong to the sub-stream of the last file event
Data(i, len) ==
    /\ pc = "running"
    /\ i = Len(streams)
    /\ i >= 1
    /\ streams[i].status = "open"
    /\ streams[i].flowing
    /\ Delivered(streams) + len <= MaxBytes
    /\ IF streams[i].listening
       THEN LET r == DataListener(streams[i], len, hasError, totalFileSize, opts)
            IN  /\ streams' = [streams EXCEPT ![i] = r.f]
                /\ hasError' = r.hasError
                /\ totalFileSize' = r.totalFileSize
                /\ IF r.raise # "none"
                   THEN /\ promise' = Reject(promise, r.raise)
                        /\ firstRaised' = Raised(firstRaised, r.raise)
                   ELSE UNCHANGED <<promise, firstRaised>>
       ELSE \* a resumed sub-stream without listeners: the bytes are dropped
            /\ streams' = [streams EXCEPT ![i].offset = @ + len]
            /\ UNCHANGED <<hasError, totalFileSize, promise, firstRaised>>
    /\ UNCHANGED <<contentType, opts, pc, registered, piped, payload, files,
                   fileCount, fieldEvents, longField>>
    /\ UNCHANGED <<arrivals, coerceVars, mwVars, pairVars, storageVars, clientVars, awsVars>>

(***************************************************************************)
(* file.on('end') and file.on('error')                                     *)
(***************************************************************************)
\* a concatenation that puts each later chunk in front
RECURSIVE concatReversed(_)
concatReversed(chunks) ==
    IF chunks = <<>> THEN <<>>
    ELSE concatReversed(Tail(chunks)) \o Head(chunks)

\* Buffer.concat(chunks)
RECURSIVE concat(_)
concat(chunks) ==
    IF chunks = <<>> THEN <<>> ELSE Head(chunks) \o concat(Tail(chunks))

ParsedFile(f) ==
    [fieldname |-> f.fieldname,
     originalname |-> f.info.filename,
     encoding |-> f.info.encoding,
     mimetype |-> f.info.mimeType,
     size |-> f.size,
     buffer |-> concat(f.chunks)]

\* an end listener that tests the flag of its own file only
EndListenerOwnFlag(fs, f, err) ==
    IF ~f.fileSizeExceeded THEN Append(fs, ParsedFile(f)) ELSE fs

\* the list of files after the end listener of sub-stream f
EndListener(fs, f, err) ==
    IF ~err /\ ~f.fileSizeExceeded THEN Append(fs, ParsedFile(f)) ELSE fs

End(i) ==
    /\ pc = "running"
    /\ i \in 1..Len(streams)
    /\ streams[i].status = "open"
    /\ streams[i].flowing
    /\ streams' = [streams EXCEPT ![i].status = "ended"]
    /\ files' = IF streams[i].listening
                THEN EndListener(files, streams[i], hasError)
                ELSE files
    /\ UNCHANGED <<contentType, opts, pc, registered, piped, payload, fileCount,
                   hasError, totalFileSize, promise, firstRaised, fieldEvents,
                   longField>>
    /\ UNCHANGED <<arrivals, coerceVars, mwVars, pairVars, storageVars, clientVars, awsVars>>

FileError(i) ==
    /\ pc = "running"
    /\ i \in 1..Len(streams)
    /\ streams[i].status = "open"
    /\ streams[i].listening
    /\ streams' = [streams EXCEPT ![i].status = "errored"]
    /\ hasError' = TRUE
    /\ promise' = Reject(promise, "StreamError")
    /\ firstRaised' = Raised(firstRaised, "StreamError")
    /\ UNCHANGED <<contentType, opts, pc, registered, piped, payload, files,
                   fileCount, totalFileSize, fieldEvents, longField>>
    /\ UNCHANGED <<arrivals, coerceVars, mwVars, pairVars, storageVars, clientVars, awsVars>>

(***************************************************************************)
(* busboy.on('limit'), busboy.on('error'), busboy.on('finish')             *)
(***************************************************************************)
Limit ==
    /\ pc = "running"
    /\ IF hasError
       THEN UNCHANGED <<hasError, promise, firstRaised>>
       ELSE /\ hasError' = TRUE
            /\ promise' = Reject(promise, "LimitExceeded")
            /\ firstRaised' = Raised(firstRaised, "LimitExceeded")
    /\ UNCHANGED <<contentType, opts, pc, registered, piped, payload, files,
                   fileCount, totalFileSize, streams, fieldEvents, longField>>
    /\ UNCHANGED <<arrivals, coerceVars, mwVars, pairVars, storageVars, clientVars, awsVars>>

Error ==
    /\ pc = "running"
    /\ promise' = Reject(promise, "DecoderError")
    /\ firstRaised' = Raised(firstRaised, "DecoderError")
    /\ UNCHANGED <<contentType, opts, pc, registered, piped, payload, files,
                   fileCount, hasError, totalFileSize, streams, fieldEvents,
                   longField>>
    /\ UNCHANGED <<arrivals, coerceVars, mwVars, pairVars, storageVars, clientVars, awsVars>>

\* a finish handler that leaves the files out
AddFilesNone(pl, fs) == pl

\* files.forEach((file) => normalizeField(payload, file.fieldname, file))
RECURSIVE AddFiles(_, _)
AddFiles(pl, fs) ==
    IF fs = <<>> THEN pl
    ELSE AddFiles(normalizeField(pl, Head(fs).fieldname, FileVal(Head(fs))), Tail(fs))

\* the decoder finishes when every sub-stream has been read to its end
Finish ==
    /\ pc = "running"
    /\ \A i \in 1..Len(streams) : streams[i].status # "open"
    /\ pc' = "finished"
    /\ IF hasError
       THEN UNCHANGED <<payload, promise>>
       ELSE /\ payload' = AddFiles(payload, files)
            /\ promise' = Resolve(promise, payload')
    /\ UNCHANGED <<contentType, opts, registered, piped, files, fileCount,
                   hasError, totalFileSize, streams, firstRaised, fieldEvents,
                   longField>>
    /\ UNCHANGED <<arrivals, coerceVars, mwVars, pairVars, storageVars, clientVars, awsVars>>

Next ==
    \/ Call
    \/ \E n \in FieldNames, v \in FieldValues : Field(n, v) /\ UNCHANGED arrivals
    \/ \E n \in FileNames : File(n) /\ UNCHANGED arrivals
    \/ \E i \in 1..MaxFileEvents, len \in 1..MaxChunk : Data(i, len)
    \/ \E i \in 1..MaxFileEvents : End(i)
    \/ \E i \in 1..MaxFileEvents : FileError(i)
    \/ Limit
    \/ Error
    \/ Finish

Spec == Init /\ [][Next]_vars

\* The client sends the whole body: a sub-stream that is being read comes to
\* its end, and the decoder finishes once every sub-stream has ended.
LiveSpec ==
    /\ Spec
    /\ WF_vars(Call)
    /\ WF_vars(\E i \in 1..MaxFileEvents : End(i))
    /\ WF_vars(Finish)

(***************************************************************************)
(* A form within all limits: the default options, names that collide and   *)
(* values of several kinds, and no failure event.                          *)
(***************************************************************************)
FormNames == { <<"a">>, <<"b">> }

FormValues == { <<"x">>, <<"[", "1", "]">> }

\* parseMultipart(req): no option is passed
NoOptions == <<>>

\* the history of the field and file events: what arrived, in its order
FieldArrival(n, v) == [name |-> n, kind |-> "field", value |-> autoParse(v, opts)]

FileArrival(n) == [name |-> n, kind |-> "file", value |-> Len(streams) + 1]

Observe(e) == arrivals' = Append(arrivals, e)

FormInit ==
    /\ contentType = "multipart/form-data; boundary=x"
    /\ opts = Merge(DEFAULT_OPTIONS, NoOptions)
    /\ pc = "called"
    /\ registered = FALSE
    /\ piped = FALSE
    /\ payload = <<>>
    /\ files = <<>>
    /\ fileCount = 0
    /\ hasError = FALSE
    /\ totalFileSize = 0
    /\ streams = <<>>
    /\ promise = Pending
    /\ firstRaised = "none"
    /\ fieldEvents = 0
    /\ longField = FALSE
    /\ arrivals = <<>>
    /\ cin = <<>>
    /\ cout = Undefined
    /\ cback = Undefined
    /\ mw = "none"
    /\ nextCalls = <<>>
    /\ reqPayload = Undefined
    /\ calls = <<>>
    /\ hists = <<>>
    /\ defaults = DEFAULT_OPTIONS
    /\ inputs = <<>>
    /\ uploadOptions = <<>>
    /\ uploads = <<>>
    /\ settled = <<>>
    /\ many = NotCalled
    /\ data = <<>>
    /\ formData = <<>>
    /\ s3ModulePromise = 0
    /\ clientPromise = 0
    /\ loads = <<>>
    /\ clients = <<>>
    /\ ops = <<>>

FormNext ==
    \/ Call
    \/ \E n \in FormNames, v \in FormValues : Field(n, v) /\ Observe(FieldArrival(n, v))
    \/ \E n \in FormNames : File(n) /\ Observe(FileArrival(n))
    \/ \E i \in 1..MaxFileEvents, len \in 1..MaxChunk : Data(i, len)
    \/ \E i \in 1..MaxFileEvents : End(i)
    \/ Finish

FormSpec == FormInit /\ [][FormNext]_vars

\* the same form with names that Object.prototype defines
BuiltinNames ==
    { <<"a">>, ProtoName, <<"c","o","n","s","t","r","u","c","t","o","r">> }

BuiltinNext ==
    \/ Call
    \/ \E n \in BuiltinNames, v \in FormValues : Field(n, v) /\ Observe(FieldArrival(n, v))
    \/ \E n \in BuiltinNames : File(n) /\ Observe(FileArrival(n))
    \/ \E i \in 1..MaxFileEvents, len \in 1..MaxChunk : Data(i, len)
    \/ \E i \in 1..MaxFileEvents : End(i)
    \/ Finish

BuiltinSpec == FormInit /\ [][BuiltinNext]_vars

(***************************************************************************)
(* autoParse on its own: one string, one setting of the three flags.       *)
(***************************************************************************)
\* the texts of field values: empty and blank texts, numerals, the boolean
\* words and their look-alikes, JSON texts that parse and that do not
CoerceInputs ==
    { <<>>,
      <<" ">>,
      <<"0">>,
      <<"1">>,
      <<"2", "5">>,
      <<" ", "2", "5", " ">>,
      <<"-", "5">>,
      <<"+", "5">>,
      <<"0", "0", "7">>,
      <<"t", "r", "u", "e">>,
      <<"f", "a", "l", "s", "e">>,
      <<"T", "r", "u", "e">>,
      <<" ", "t", "r", "u", "e">>,
      <<"x">>,
      <<"1", "x">>,
      <<"[", "1", "]">>,
      <<"[", "1", ",", "2", "]">>,
      <<"[", "]">>,
      <<"{", "}">>,
      <<"[">>,
      <<"[", "x", "]">>,
      <<"[", "1", ",", "]">>,
      <<"{", "\"", "x", "\"", ":", "1", "}">>,
      <<" ", "{", "\"", "x", "\"", ":", "1", "}", " ">>,
      <<"{", "x", "}">>,
      <<"{", "\"", "b", "\"", ":", "1", ",", "\"", "1", "\"", ":", "2", "}">>,
      <<"[", "\"", "a", "\"", ",", "\"", "b", "\"", "]">>,
      <<"[", "t", "r", "u", "e", ",", "n", "u", "l", "l", "]">>,
      <<"I", "n", "f", "i", "n", "i", "t", "y">>,
      <<"-", "I", "n", "f", "i", "n", "i", "t", "y">>,
      <<"n", "u", "l", "l">>,
      <<"[", "1", "]", " ">>,
      <<"[", "[", "1", "]", ",", "2", "]">>,
      <<"{", "\"", "a", "\"", ":", "[", "1", "]", "}">>,
      <<"{", "\"", "a", "\"", ":", "1", ",", "\"", "a", "\"", ":", "2", "}">>,
      <<"[", "0", "0", "7", "]">>,
      <<"[", "1", "e", "2", "]">>,
      <<"[", "1", "e", "4", "0", "0", "]">> }

FlagChoices ==
    [autoParseJSON : BOOLEAN, autoParseNumbers : BOOLEAN, autoParseBooleans : BOOLEAN]

\* Number.prototype.toString of a non-negative integer
RECURSIVE NatToString(_)
NatToString(n) ==
    IF n < 10 THEN <<Digits[n + 1]>>
    ELSE NatToString(n \div 10) \o <<Digits[(n % 10) + 1]>>

\* Number.prototype.toString
numberToString(n) ==
    IF n < 0 THEN <<"-">> \o NatToString(0 - n) ELSE NatToString(n)

\* JSON.stringify, for values without escapes
RECURSIVE stringify(_), stringifyElements(_), stringifyMembers(_)
stringify(x) ==
    IF x.t = "str" THEN <<"\"">> \o x.v \o <<"\"">>
    ELSE IF x.t = "num" THEN numberToString(x.v)
    ELSE IF x.t = "bool" THEN IF x.v THEN <<"t","r","u","e">> ELSE <<"f","a","l","s","e">>
    ELSE IF x.t = "arr" THEN <<"[">> \o stringifyElements(x.v) \o <<"]">>
    ELSE IF x.t = "obj" THEN <<"{">> \o stringifyMembers(x.v) \o <<"}">>
    ELSE <<"n","u","l","l">>

stringifyElements(xs) ==
    IF xs = <<>> THEN <<>>
    ELSE IF Len(xs) = 1 THEN stringify(xs[1])
    ELSE stringify(xs[1]) \o <<",">> \o stringifyElements(Tail(xs))

stringifyMembers(ms) ==
    IF ms = <<>> THEN <<>>
    ELSE LET one == <<"\"">> \o ms[1].k \o <<"\"", ":">> \o stringify(ms[1].v)
         IN  IF Len(ms) = 1 THEN one
             ELSE one \o <<",">> \o stringifyMembers(Tail(ms))

\* the text a coerced value is sent as: toString for a number or a boolean,
\* JSON.stringify for a structure
representation(x) ==
    IF x.t = "num" THEN numberToString(x.v)
    ELSE IF x.t = "inf"
    THEN IF x.v < 0 THEN <<"-","I","n","f","i","n","i","t","y">>
         ELSE <<"I","n","f","i","n","i","t","y">>
    ELSE IF x.t = "bool" THEN stringify(x)
    ELSE IF x.t \in {"arr", "obj"} THEN stringify(x)
    ELSE x.v

CoerceInit ==
    /\ contentType = "multipart/form-data; boundary=x"
    /\ opts \in {Merge(DEFAULT_OPTIONS, f) : f \in FlagChoices}
    /\ pc = "autoParse"
    /\ registered = FALSE
    /\ piped = FALSE
    /\ payload = <<>>
    /\ files = <<>>
    /\ fileCount = 0
    /\ hasError = FALSE
    /\ totalFileSize = 0
    /\ streams = <<>>
    /\ promise = Pending
    /\ firstRaised = "none"
    /\ fieldEvents = 0
    /\ longField = FALSE
    /\ arrivals = <<>>
    /\ cin \in CoerceInputs
    /\ cout = Undefined
    /\ cback = Undefined
    /\ mw = "none"
    /\ nextCalls = <<>>
    /\ reqPayload = Undefined
    /\ calls = <<>>
    /\ hists = <<>>
    /\ defaults = DEFAULT_OPTIONS
    /\ inputs = <<>>
    /\ uploadOptions = <<>>
    /\ uploads = <<>>
    /\ settled = <<>>
    /\ many = NotCalled
    /\ data = <<>>
    /\ formData = <<>>
    /\ s3ModulePromise = 0
    /\ clientPromise = 0
    /\ loads = <<>>
    /\ clients = <<>>
    /\ ops = <<>>

\* autoParse(cin, opts)
Coerce ==
    /\ pc = "autoParse"
    /\ cout' = autoParse(cin, opts)
    /\ pc' = "coerced"
    /\ UNCHANGED <<contentType, opts, registered, piped, payload, files,
                   fileCount, hasError, totalFileSize, streams, promise,
                   firstRaised, fieldEvents, longField, arrivals, cin, cback,
                   mwVars, pairVars, storageVars, clientVars, awsVars>>

\* autoParse of the text of a value that autoParse coerced
Recoerce ==
    /\ pc = "coerced"
    /\ cout.t # "str"
    /\ cback' = autoParse(representation(cout), opts)
    /\ pc' = "recoerced"
    /\ UNCHANGED <<contentType, opts, registered, piped, payload, files,
                   fileCount, hasError, totalFileSize, streams, promise,
                   firstRaised, fieldEvents, longField, arrivals, cin, cout,
                   mwVars, pairVars, storageVars, clientVars, awsVars>>

CoerceNext == Coerce \/ Recoerce

CoerceSpec == CoerceInit /\ [][CoerceNext]_vars

(***************************************************************************)
(* The parser() middleware.                                                *)
(***************************************************************************)
\* the content-type headers of the requests the middleware is given: Node
\* hands the header over as a string or not at all
MwContentTypes ==
    { "absent", "empty", "application/json",
      "application/x-www-form-urlencoded", "text/plain; note=multipart/form-data",
      "multipart/form-data", "multipart/form-data; boundary=x" }

MultipartText ==
    <<"m","u","l","t","i","p","a","r","t","/","f","o","r","m","-","d","a","t","a">>

\* req.headers['content-type'] || ''
HeaderText(ct) ==
    CASE ct = "absent" -> <<>>
      [] ct = "empty" -> <<>>
      [] ct = "application/json" ->
            <<"a","p","p","l","i","c","a","t","i","o","n","/","j","s","o","n">>
      [] ct = "application/x-www-form-urlencoded" ->
            <<"a","p","p","l","i","c","a","t","i","o","n","/","x","-","w","w","w",
              "-","f","o","r","m","-","u","r","l","e","n","c","o","d","e","d">>
      [] ct = "text/plain; note=multipart/form-data" ->
            <<"t","e","x","t","/","p","l","a","i","n",";"," ","n","o","t","e","=">>
            \o MultipartText
      [] ct = "multipart/form-data" -> MultipartText
      [] ct = "multipart/form-data; boundary=x" ->
            MultipartText \o <<";"," ","b","o","u","n","d","a","r","y","=","x">>

\* String.prototype.includes
includes(s, w) ==
    \E i \in 1..(Len(s) - Len(w) + 1) : SubSeq(s, i, i + Len(w) - 1) = w

MwInit ==
    /\ contentType \in MwContentTypes
    /\ opts \in {Merge(DEFAULT_OPTIONS, o) : o \in OptionChoices}
    /\ pc = "idle"
    /\ registered = FALSE
    /\ piped = FALSE
    /\ payload = <<>>
    /\ files = <<>>
    /\ fileCount = 0
    /\ hasError = FALSE
    /\ totalFileSize = 0
    /\ streams = <<>>
    /\ promise = Pending
    /\ firstRaised = "none"
    /\ fieldEvents = 0
    /\ longField = FALSE
    /\ arrivals = <<>>
    /\ cin = <<>>
    /\ cout = Undefined
    /\ cback = Undefined
    /\ mw = "entered"
    /\ nextCalls = <<>>
    /\ reqPayload = Undefined
    /\ calls = <<>>
    /\ hists = <<>>
    /\ defaults = DEFAULT_OPTIONS
    /\ inputs = <<>>
    /\ uploadOptions = <<>>
    /\ uploads = <<>>
    /\ settled = <<>>
    /\ many = NotCalled
    /\ data = <<>>
    /\ formData = <<>>
    /\ s3ModulePromise = 0
    /\ clientPromise = 0
    /\ loads = <<>>
    /\ clients = <<>>
    /\ ops = <<>>

\* the middleware up to its await: next() for a header without the text
\* multipart/form-data, else the call of parseMultipart
Parser ==
    /\ mw = "entered"
    /\ IF ~includes(HeaderText(contentType), MultipartText)
       THEN /\ nextCalls' = Append(nextCalls, "none")
            /\ mw' = "done"
            /\ UNCHANGED <<contentType, opts, pc, registered, piped, payload,
                           files, fileCount, hasError, totalFileSize, streams,
                           promise, firstRaised, fieldEvents, longField,
                           arrivals, coerceVars, pairVars,
                           storageVars, clientVars, awsVars,
                           reqPayload>>
       ELSE /\ Invoke
            /\ mw' = "awaiting"
            /\ UNCHANGED <<nextCalls, reqPayload>>

\* a middleware without the catch clause: the failure of the ingestion
\* rejects the promise of the middleware
SettledNoCatch ==
    /\ mw = "awaiting"
    /\ promise.state # "pending"
    /\ IF promise.state = "resolved"
       THEN /\ reqPayload' = Obj(promise.value)
            /\ nextCalls' = Append(nextCalls, "none")
            /\ mw' = "done"
       ELSE /\ mw' = "rejected"
            /\ UNCHANGED <<nextCalls, reqPayload>>
    /\ UNCHANGED <<contentType, opts, pc, registered, piped, payload, files,
                   fileCount, hasError, totalFileSize, streams, promise,
                   firstRaised, fieldEvents, longField, arrivals, coerceVars,
                   pairVars, storageVars, clientVars, awsVars>>

\* the middleware after its await: req.payload and next(), or next(error);
\* the async function returns and its promise is fulfilled
Settled ==
    /\ mw = "awaiting"
    /\ promise.state # "pending"
    /\ IF promise.state = "resolved"
       THEN /\ reqPayload' = Obj(promise.value)
            /\ nextCalls' = Append(nextCalls, "none")
       ELSE /\ nextCalls' = Append(nextCalls, promise.reason)
            /\ UNCHANGED reqPayload
    /\ mw' = "done"
    /\ UNCHANGED <<contentType, opts, pc, registered, piped, payload, files,
                   fileCount, hasError, totalFileSize, streams, promise,
                   firstRaised, fieldEvents, longField, arrivals, coerceVars,
                   pairVars, storageVars, clientVars, awsVars>>

MwNext ==
    \/ Parser
    \/ \E n \in FieldNames, v \in FieldValues : Field(n, v) /\ UNCHANGED arrivals
    \/ \E n \in FileNames : File(n) /\ UNCHANGED arrivals
    \/ \E i \in 1..MaxFileEvents, len \in 1..MaxChunk : Data(i, len)
    \/ \E i \in 1..MaxFileEvents : End(i)
    \/ \E i \in 1..MaxFileEvents : FileError(i)
    \/ Limit
    \/ Error
    \/ Finish
    \/ Settled

MwSpec == MwInit /\ [][MwNext]_vars

(***************************************************************************)
(* Two parseMultipart calls side by side.  Each call has its closure: the   *)
(* variables that the executor of its promise declares, and its opts.  The  *)
(* module's DEFAULT_OPTIONS object is the one object both calls reach.      *)
(***************************************************************************)
\* the longest history of one call: the call and the events after it
MaxPairEvents == 4

\* the options the two callers pass
PairOptions == { NoOptions, [maxFileSize |-> 1, maxFiles |-> 1] }

PairContentTypes == { "absent", "multipart/form-data; boundary=x" }

PairNames == { <<"a">> }

PairValues == { <<"2", "5">> }

\* a call before parseMultipart runs
NewCall(ct, options) ==
    [contentType |-> ct,
     options |-> options,
     opts |-> <<>>,
     pc |-> "called",
     payload |-> <<>>,
     files |-> <<>>,
     fileCount |-> 0,
     hasError |-> FALSE,
     totalFileSize |-> 0,
     streams |-> <<>>,
     promise |-> Pending]

\* an event of the history of a call: its kind, the field name, the value,
\* the sub-stream and the length of the chunk
Event(e, n, v, i, len) == <<e, n, v, i, len>>

\* Object.assign(DEFAULT_OPTIONS, options): the merge written into the
\* module's object
AssignDefaults(defs, options) ==
    [opts |-> Merge(defs, options), defaults |-> Merge(defs, options)]

\* { ...DEFAULT_OPTIONS, ...options }: a new object, the module's object is
\* read
SpreadDefaults(defs, options) ==
    [opts |-> Merge(defs, options), defaults |-> defs]

\* the closure after the synchronous part of parseMultipart, with the
\* module's defaults as they are at the call
OnInvoke(c, defs) ==
    LET merged == SpreadDefaults(defs, c.options).opts
    IN  IF MissingOrInvalid(c.contentType)
        THEN [c EXCEPT !.opts = merged, !.pc = "returned",
                       !.promise = Reject(@, "MissingContentType")]
        ELSE IF ~BusboyAccepts(c.contentType)
        THEN [c EXCEPT !.opts = merged, !.pc = "returned",
                       !.promise = Reject(@, "DecoderThrew")]
        ELSE [c EXCEPT !.opts = merged, !.pc = "running"]

\* busboy.on('field')
OnField(c, fieldname, value) ==
    [c EXCEPT !.payload = FieldHandler(@, fieldname, value, c.opts)]

\* busboy.on('file')
OnFile(c, fieldname) ==
    LET count == c.fileCount + 1
        over == TooManyFiles(count, c.opts)
    IN  [c EXCEPT !.fileCount = count,
                  !.streams = Append(@, FileStream(NewStream(fieldname, Len(@) + 1),
                                                   count, c.opts)),
                  !.hasError = IF over THEN TRUE ELSE @,
                  !.promise = IF over THEN Reject(@, "TooManyFiles") ELSE @]

\* file.on('data') of sub-stream i
OnData(c, i, len) ==
    IF c.streams[i].listening
    THEN LET r == DataListener(c.streams[i], len, c.hasError, c.totalFileSize,
                               c.opts)
         IN  [c EXCEPT !.streams[i] = r.f,
                       !.hasError = r.hasError,
                       !.totalFileSize = r.totalFileSize,
                       !.promise = IF r.raise # "none" THEN Reject(@, r.raise)
                                   ELSE @]
    ELSE [c EXCEPT !.streams[i].offset = @ + len]

\* file.on('end') of sub-stream i
OnEnd(c, i) ==
    [c EXCEPT !.streams[i].status = "ended",
              !.files = IF c.streams[i].listening
                        THEN EndListener(@, c.streams[i], c.hasError)
                        ELSE @]

\* busboy.on('finish')
OnFinish(c) ==
    IF c.hasError
    THEN [c EXCEPT !.pc = "finished"]
    ELSE LET built == AddFiles(c.payload, c.files)
         IN  [c EXCEPT !.pc = "finished",
                       !.payload = built,
                       !.promise = Resolve(@, built)]

\* the decoder of call c can deliver event ev
Deliverable(c, ev) ==
    IF ev[1] = "call" THEN c.pc = "called"
    ELSE /\ c.pc = "running"
         /\ CASE ev[1] = "field" -> TRUE
              [] ev[1] = "file" -> TRUE
              [] ev[1] = "data" -> /\ ev[4] = Len(c.streams)
                                  /\ ev[4] >= 1
                                  /\ c.streams[ev[4]].status = "open"
                                  /\ c.streams[ev[4]].flowing
              [] ev[1] = "end" -> /\ ev[4] \in 1..Len(c.streams)
                                 /\ c.streams[ev[4]].status = "open"
                                 /\ c.streams[ev[4]].flowing
              [] ev[1] = "finish" ->
                    \A i \in 1..Len(c.streams) : c.streams[i].status # "open"

\* the closure of call c after event ev, with the module's defaults defs
Handle(c, ev, defs) ==
    CASE ev[1] = "call" -> OnInvoke(c, defs)
      [] ev[1] = "field" -> OnField(c, ev[2], ev[3])
      [] ev[1] = "file" -> OnFile(c, ev[2])
      [] ev[1] = "data" -> OnData(c, ev[4], ev[5])
      [] ev[1] = "end" -> OnEnd(c, ev[4])
      [] ev[1] = "finish" -> OnFinish(c)

\* the module's defaults after call c handled event ev
DefaultsAfter(c, ev, defs) ==
    IF ev[1] = "call" THEN SpreadDefaults(defs, c.options).defaults ELSE defs

\* the closure of a call that runs alone in a fresh module and is delivered
\* the events h
Alone(c, h, defs) ==
    LET after[i \in 0..Len(h)] ==
            IF i = 0 THEN [c |-> c, defaults |-> defs]
            ELSE [c |-> Handle(after[i - 1].c, h[i], after[i - 1].defaults),
                  defaults |-> DefaultsAfter(after[i - 1].c, h[i],
                                             after[i - 1].defaults)]
    IN  after[Len(h)].c

PairInit ==
    /\ contentType = "multipart/form-data; boundary=x"
    /\ opts = Merge(DEFAULT_OPTIONS, NoOptions)
    /\ pc = "called"
    /\ registered = FALSE
    /\ piped = FALSE
    /\ payload = <<>>
    /\ files = <<>>
    /\ fileCount = 0
    /\ hasError = FALSE
    /\ totalFileSize = 0
    /\ streams = <<>>
    /\ promise = Pending
    /\ firstRaised = "none"
    /\ fieldEvents = 0
    /\ longField = FALSE
    /\ arrivals = <<>>
    /\ cin = <<>>
    /\ cout = Undefined
    /\ cback = Undefined
    /\ mw = "none"
    /\ nextCalls = <<>>
    /\ reqPayload = Undefined
    /\ calls \in {<<NewCall(ct1, o1), NewCall(ct2, o2)>> :
                    <<ct1, o1, ct2, o2>> \in PairContentTypes \X PairOptions
                                            \X PairContentTypes \X PairOptions}
    /\ hists = <<<<>>, <<>>>>
    /\ defaults = DEFAULT_OPTIONS
    /\ inputs = <<>>
    /\ uploadOptions = <<>>
    /\ uploads = <<>>
    /\ settled = <<>>
    /\ many = NotCalled
    /\ data = <<>>
    /\ formData = <<>>
    /\ s3ModulePromise = 0
    /\ clientPromise = 0
    /\ loads = <<>>
    /\ clients = <<>>
    /\ ops = <<>>

\* event ev is delivered to call k, and to no other
Deliver(k, ev) ==
    /\ Len(hists[k]) < MaxPairEvents
    /\ Deliverable(calls[k], ev)
    /\ calls' = [calls EXCEPT ![k] = Handle(@, ev, defaults)]
    /\ defaults' = DefaultsAfter(calls[k], ev, defaults)
    /\ hists' = [hists EXCEPT ![k] = Append(@, ev)]
    /\ UNCHANGED <<contentType, opts, pc, registered, piped, payload, files,
                   fileCount, hasError, totalFileSize, streams, promise,
                   firstRaised, fieldEvents, longField, arrivals, coerceVars,
                   mwVars, storageVars, clientVars, awsVars>>

PairCall(k) == Deliver(k, Event("call", <<>>, <<>>, 0, 0))

PairField(k, n, v) == Deliver(k, Event("field", n, v, 0, 0))

PairFile(k, n) == Deliver(k, Event("file", n, <<>>, 0, 0))

PairData(k, i, len) == Deliver(k, Event("data", <<>>, <<>>, i, len))

PairEnd(k, i) == Deliver(k, Event("end", <<>>, <<>>, i, 0))

PairFinish(k) == Deliver(k, Event("finish", <<>>, <<>>, 0, 0))

\* what happens to call k
CallNext(k) ==
    \/ PairCall(k)
    \/ \E n \in PairNames, v \in PairValues : PairField(k, n, v)
    \/ \E n \in PairNames : PairFile(k, n)
    \/ \E i \in 1..MaxFileEvents, len \in 1..MaxChunk : PairData(k, i, len)
    \/ \E i \in 1..MaxFileEvents : PairEnd(k, i)
    \/ PairFinish(k)

PairNext == \E k \in 1..2 : CallNext(k)

PairSpec == PairInit /\ [][PairNext]_vars

(***************************************************************************)
(* One call, for each way of passing options: none, one option, all.        *)
(***************************************************************************)
\* the defaults of the options table of the README
DocumentedDefaults ==
    [maxFileSize |-> 10485760,
     maxFiles |-> 10,
     maxFields |-> 100,
     maxFieldSize |-> 65536,
     maxTotalFileSize |-> Infinity,
     autoParseJSON |-> TRUE,
     autoParseNumbers |-> TRUE,
     autoParseBooleans |-> TRUE]

\* a configuration that overrides every option
AllOptions ==
    [maxFileSize |-> 1, maxFiles |-> 1, maxFields |-> 1, maxFieldSize |-> 1,
     maxTotalFileSize |-> 1, autoParseJSON |-> FALSE,
     autoParseNumbers |-> FALSE, autoParseBooleans |-> FALSE]

\* the options a caller passes: none, any one of them, all of them
ConfigOptions ==
    {NoOptions, AllOptions}
    \cup {[k \in {name} |-> AllOptions[k]] : name \in DOMAIN AllOptions}

ConfigInit ==
    /\ contentType = "multipart/form-data; boundary=x"
    /\ opts = Merge(DEFAULT_OPTIONS, NoOptions)
    /\ pc = "called"
    /\ registered = FALSE
    /\ piped = FALSE
    /\ payload = <<>>
    /\ files = <<>>
    /\ fileCount = 0
    /\ hasError = FALSE
    /\ totalFileSize = 0
    /\ streams = <<>>
    /\ promise = Pending
    /\ firstRaised = "none"
    /\ fieldEvents = 0
    /\ longField = FALSE
    /\ arrivals = <<>>
    /\ cin = <<>>
    /\ cout = Undefined
    /\ cback = Undefined
    /\ mw = "none"
    /\ nextCalls = <<>>
    /\ reqPayload = Undefined
    /\ calls \in {<<NewCall(ct, o)>> : ct \in PairContentTypes, o \in ConfigOptions}
    /\ hists = <<<<>>>>
    /\ defaults = DEFAULT_OPTIONS
    /\ inputs = <<>>
    /\ uploadOptions = <<>>
    /\ uploads = <<>>
    /\ settled = <<>>
    /\ many = NotCalled
    /\ data = <<>>
    /\ formData = <<>>
    /\ s3ModulePromise = 0
    /\ clientPromise = 0
    /\ loads = <<>>
    /\ clients = <<>>
    /\ ops = <<>>

ConfigNext == CallNext(1)

ConfigSpec == ConfigInit /\ [][ConfigNext]_vars

(***************************************************************************)
(* One call with an option that is passed with the value undefined.         *)
(***************************************************************************)
\* options of which one is undefined, alone or beside a limit of 1
UndefinedOptions ==
    { [maxFiles |-> UndefinedOption],
      [maxFileSize |-> UndefinedOption],
      [maxTotalFileSize |-> UndefinedOption],
      [maxFiles |-> UndefinedOption, maxFileSize |-> 1],
      [maxFiles |-> 1, maxFileSize |-> UndefinedOption],
      [maxFiles |-> 1, maxFileSize |-> 1, maxTotalFileSize |-> UndefinedOption] }

UndefinedInit ==
    /\ contentType = "multipart/form-data; boundary=x"
    /\ opts = Merge(DEFAULT_OPTIONS, NoOptions)
    /\ pc = "called"
    /\ registered = FALSE
    /\ piped = FALSE
    /\ payload = <<>>
    /\ files = <<>>
    /\ fileCount = 0
    /\ hasError = FALSE
    /\ totalFileSize = 0
    /\ streams = <<>>
    /\ promise = Pending
    /\ firstRaised = "none"
    /\ fieldEvents = 0
    /\ longField = FALSE
    /\ arrivals = <<>>
    /\ cin = <<>>
    /\ cout = Undefined
    /\ cback = Undefined
    /\ mw = "none"
    /\ nextCalls = <<>>
    /\ reqPayload = Undefined
    /\ calls \in {<<NewCall(ct, o)>> : ct \in PairContentTypes, o \in UndefinedOptions}
    /\ hists = <<<<>>>>
    /\ defaults = DEFAULT_OPTIONS
    /\ inputs = <<>>
    /\ uploadOptions = <<>>
    /\ uploads = <<>>
    /\ settled = <<>>
    /\ many = NotCalled
    /\ data = <<>>
    /\ formData = <<>>
    /\ s3ModulePromise = 0
    /\ clientPromise = 0
    /\ loads = <<>>
    /\ clients = <<>>
    /\ ops = <<>>

UndefinedNext == CallNext(1)

UndefinedSpec == UndefinedInit /\ [][UndefinedNext]_vars

(***************************************************************************)
(* storage.uploadMany: upload(input) for every input, and Promise.all.      *)
(***************************************************************************)
\* the longest list of inputs
MaxInputs == 3

\* a ParsedFile, or a Buffer, which has no name of its own
InputKinds == { "parsedFile", "buffer" }

\* the input at position k of the list
Input(kind, k) == [kind |-> kind, originalname |-> k, size |-> k]

\* the options of the call: none, or a filename
UploadOptionChoices == { NoOptions, [filename |-> 0] }

\* resolveInput(input, options): the name and the size to upload, or the
\* exception for a Buffer without options.filename
resolveInput(input, options) ==
    IF input.kind = "parsedFile"
    THEN [filename |-> IF "filename" \in DOMAIN options THEN options.filename
                       ELSE input.originalname,
          size |-> input.size]
    ELSE IF "filename" \notin DOMAIN options
    THEN Thrown
    ELSE [filename |-> options.filename, size |-> input.size]

\* an upload that was not called
Unstarted == [state |-> "unstarted", reason |-> "none", value |-> <<>>]

\* the promise of upload(input, options) when the call returns: rejected when
\* resolveInput threw, else pending, with the provider's upload under way
upload(input, options) ==
    IF resolveInput(input, options) = Thrown
    THEN Reject(Pending, "FilenameRequired")
    ELSE Pending

\* the result of the provider for the input at position k: its key holds a
\* fresh uuid, for which the position stands, and the name
UploadResult(k, resolved) ==
    [key |-> <<k, resolved.filename>>, size |-> resolved.size]

\* the rejected promises among ps, in the order in which they settled
Rejections(ps, order) == SelectSeq(order, LAMBDA k : ps[k].state = "rejected")

\* a Promise.all that collects the values as they come
PromiseAllAsSettled(ps, order) ==
    IF Rejections(ps, order) # <<>>
    THEN Reject(Pending, ps[Head(Rejections(ps, order))].reason)
    ELSE IF \A k \in 1..Len(ps) : ps[k].state = "fulfilled"
    THEN Resolve(Pending, [j \in 1..Len(order) |-> ps[order[j]].value])
    ELSE Pending

\* Promise.all(ps): rejected with the first rejection, resolved with the
\* values at the positions of their promises when all are fulfilled
PromiseAll(ps, order) ==
    IF Rejections(ps, order) # <<>>
    THEN Reject(Pending, ps[Head(Rejections(ps, order))].reason)
    ELSE IF \A k \in 1..Len(ps) : ps[k].state = "fulfilled"
    THEN Resolve(Pending, [k \in 1..Len(ps) |-> ps[k].value])
    ELSE Pending

UploadInit ==
    /\ contentType = "multipart/form-data; boundary=x"
    /\ opts = Merge(DEFAULT_OPTIONS, NoOptions)
    /\ pc = "called"
    /\ registered = FALSE
    /\ piped = FALSE
    /\ payload = <<>>
    /\ files = <<>>
    /\ fileCount = 0
    /\ hasError = FALSE
    /\ totalFileSize = 0
    /\ streams = <<>>
    /\ promise = Pending
    /\ firstRaised = "none"
    /\ fieldEvents = 0
    /\ longField = FALSE
    /\ arrivals = <<>>
    /\ cin = <<>>
    /\ cout = Undefined
    /\ cback = Undefined
    /\ mw = "none"
    /\ nextCalls = <<>>
    /\ reqPayload = Undefined
    /\ calls = <<>>
    /\ hists = <<>>
    /\ defaults = DEFAULT_OPTIONS
    /\ inputs \in UNION {{[k \in 1..n |-> Input(kinds[k], k)] :
                            kinds \in [1..n -> InputKinds]} : n \in 0..MaxInputs}
    /\ uploadOptions \in UploadOptionChoices
    /\ uploads = [k \in 1..Len(inputs) |-> Unstarted]
    /\ settled = <<>>
    /\ many = NotCalled
    /\ data = <<>>
    /\ formData = <<>>
    /\ s3ModulePromise = 0
    /\ clientPromise = 0
    /\ loads = <<>>
    /\ clients = <<>>
    /\ ops = <<>>

\* storage.uploadMany(inputs, options): inputs.map calls upload for each
\* input in turn, then Promise.all takes the promises
UploadMany ==
    /\ many.state = "none"
    /\ uploads' = [k \in 1..Len(inputs) |-> upload(inputs[k], uploadOptions)]
    /\ settled' = SelectSeq([k \in 1..Len(inputs) |-> k],
                            LAMBDA k : uploads'[k].state = "rejected")
    /\ many' = PromiseAll(uploads', settled')
    /\ UNCHANGED <<contentType, opts, pc, registered, piped, payload, files,
                   fileCount, hasError, totalFileSize, streams, promise,
                   firstRaised, fieldEvents, longField, arrivals, coerceVars,
                   mwVars, pairVars, clientVars, awsVars, inputs,
                   uploadOptions>>

\* the upload of the provider for input k ends, with a result or a failure
ProviderSettles(k, ok) ==
    /\ k \in 1..Len(uploads)
    /\ uploads[k].state = "pending"
    /\ uploads' = [uploads EXCEPT ![k] =
          IF ok
          THEN [state |-> "fulfilled", reason |-> "none",
                value |-> UploadResult(k, resolveInput(inputs[k], uploadOptions))]
          ELSE Reject(@, "ProviderError")]
    /\ settled' = Append(settled, k)
    /\ many' = IF many.state = "pending" THEN PromiseAll(uploads', settled')
               ELSE many
    /\ UNCHANGED <<contentType, opts, pc, registered, piped, payload, files,
                   fileCount, hasError, totalFileSize, streams, promise,
                   firstRaised, fieldEvents, longField, arrivals, coerceVars,
                   mwVars, pairVars, clientVars, awsVars, inputs,
                   uploadOptions>>

UploadNext ==
    \/ UploadMany
    \/ \E k \in 1..MaxInputs, ok \in BOOLEAN : ProviderSettles(k, ok)

UploadSpec == UploadInit /\ [][UploadNext]_vars

(***************************************************************************)
(* The client: payload() builds a FormData from an object, and the request  *)
(* carries its entries, in their order, to the parser() middleware.         *)
(***************************************************************************)
\* DEFAULT_OPTIONS of the client
CLIENT_DEFAULT_OPTIONS ==
    [indices |-> FALSE, nullsAsUndefineds |-> FALSE, booleansAsIntegers |-> TRUE]

\* valueToString(value, options): the string of a primitive, or undefined
\* for a value that is skipped
valueToString(value, options) ==
    IF value.t = "null"
    THEN IF options.nullsAsUndefineds THEN Undefined ELSE Str(<<>>)
    ELSE IF value.t = "undefined" THEN Undefined
    ELSE IF value.t = "bool"
    THEN IF options.booleansAsIntegers
         THEN Str(IF value.v THEN <<"1">> ELSE <<"0">>)
         ELSE Str(IF value.v THEN <<"t","r","u","e">> ELSE <<"f","a","l","s","e">>)
    ELSE IF value.t = "num" THEN Str(numberToString(value.v))
    ELSE IF value.t = "inf"
    THEN Str(IF value.v < 0 THEN <<"-","I","n","f","i","n","i","t","y">>
             ELSE <<"I","n","f","i","n","i","t","y">>)
    ELSE IF value.t = "str" THEN value
    ELSE Undefined

\* a buildFieldName that always writes the index
buildFieldNameIndexed(parentKey, key, options) ==
    parentKey \o <<"[">> \o NatToString(key) \o <<"]">>

\* buildFieldName(parentKey, key, options) for the index of an array item
buildFieldName(parentKey, key, options) ==
    IF options.indices THEN parentKey \o <<"[">> \o NatToString(key) \o <<"]">>
    ELSE parentKey

\* append(key, value) of payload(): the entries of the FormData after it
RECURSIVE append(_, _, _, _), appendItems(_, _, _, _, _)
append(fd, key, value, options) ==
    IF value.t = "arr" THEN appendItems(fd, key, value.v, 0, options)
    ELSE IF value.t = "obj"
    THEN Append(fd, [k |-> key, v |-> Str(stringify(value))])
    ELSE LET stringValue == valueToString(value, options)
         IN  IF isUndefined(stringValue) THEN fd
             ELSE Append(fd, [k |-> key, v |-> stringValue])

\* value.forEach((item, index) => append(buildFieldName(key, index, opts), item))
appendItems(fd, key, items, index, options) ==
    IF items = <<>> THEN fd
    ELSE appendItems(append(fd, buildFieldName(key, index, options), Head(items),
                            options),
                     key, Tail(items), index + 1, options)

\* Object.entries(data).forEach(([key, value]) => append(key, value))
RECURSIVE appendEntries(_, _, _)
appendEntries(fd, members, options) ==
    IF members = <<>> THEN fd
    ELSE appendEntries(append(fd, Head(members).k, Head(members).v, options),
                       Tail(members), options)

\* payload(data, options)
clientPayload(members, options) ==
    appendEntries(<<>>, members, Merge(CLIENT_DEFAULT_OPTIONS, options))

\* the keys of the objects the client sends
ClientKeys == { <<"a">>, ProtoName }

\* the values the client sends under a key
ClientValues ==
    { Num(25), Num(0), Num(0 - 5),
      Obj(<<>>),
      Obj(<<[k |-> <<"s">>, v |-> Str(<<"w">>)]>>),
      Obj(<<[k |-> <<"n">>,
             v |-> Obj(<<[k |-> <<"m">>, v |-> Arr(<<Num(1), Bool(TRUE), Null>>)]>>)]>>),
      Obj(<<[k |-> <<"n">>, v |-> Inf(1)]>>),
      Arr(<<Num(1), Num(2)>>),
      Arr(<<Str(<<"x">>), Str(<<"y">>)>>),
      Arr(<<Obj(<<[k |-> <<"s">>, v |-> Str(<<"w">>)]>>), Num(2)>>),
      Arr(<<Num(1), Str(<<"x">>)>>),
      Arr(<<Str(<<"t","r","u","e">>), Str(<<"x">>)>>),
      Arr(<<Str(<<"[","1","]">>), Str(<<"x">>)>>),
      Arr(<<Str(<<"x">>), Str(<<"{","}">>)>>),
      Arr(<<Str(<<"x">>)>>),
      Str(<<"x">>), Str(<<"2","5">>),
      Bool(TRUE), Bool(FALSE), Null }

RoundTripInit ==
    /\ contentType = "multipart/form-data; boundary=x"
    /\ opts = Merge(DEFAULT_OPTIONS, NoOptions)
    /\ pc = "idle"
    /\ registered = FALSE
    /\ piped = FALSE
    /\ payload = <<>>
    /\ files = <<>>
    /\ fileCount = 0
    /\ hasError = FALSE
    /\ totalFileSize = 0
    /\ streams = <<>>
    /\ promise = Pending
    /\ firstRaised = "none"
    /\ fieldEvents = 0
    /\ longField = FALSE
    /\ arrivals = <<>>
    /\ cin = <<>>
    /\ cout = Undefined
    /\ cback = Undefined
    /\ mw = "none"
    /\ nextCalls = <<>>
    /\ reqPayload = Undefined
    /\ calls = <<>>
    /\ hists = <<>>
    /\ defaults = DEFAULT_OPTIONS
    /\ inputs = <<>>
    /\ uploadOptions = <<>>
    /\ uploads = <<>>
    /\ settled = <<>>
    /\ many = NotCalled
    /\ data \in {<<[k |-> key, v |-> value]>> : key \in ClientKeys, value \in ClientValues}
    /\ formData = <<>>
    /\ s3ModulePromise = 0
    /\ clientPromise = 0
    /\ loads = <<>>
    /\ clients = <<>>
    /\ ops = <<>>

\* the client builds the FormData with payload(data) and posts it: the
\* request enters the middleware
Send ==
    /\ mw = "none"
    /\ formData' = clientPayload(data, NoOptions)
    /\ mw' = "entered"
    /\ UNCHANGED <<contentType, opts, pc, registered, piped, payload, files,
                   fileCount, hasError, totalFileSize, streams, promise,
                   firstRaised, fieldEvents, longField, arrivals, coerceVars,
                   nextCalls, reqPayload, pairVars, storageVars, data,
                   awsVars>>

\* the decoder emits the entries of the body as field events, in their order
NextEntry ==
    /\ fieldEvents < Len(formData)
    /\ Field(formData[fieldEvents + 1].k, formData[fieldEvents + 1].v.v)
    /\ UNCHANGED arrivals

\* the decoder finishes after the last entry
BodyEnd ==
    /\ fieldEvents = Len(formData)
    /\ Finish

RoundTripNext ==
    \/ Send
    \/ Parser
    \/ NextEntry
    \/ BodyEnd
    \/ Settled

RoundTripSpec == RoundTripInit /\ [][RoundTripNext]_vars

(***************************************************************************)
(* The AWS provider of one adapter: the cache of the SDK module, the cache  *)
(* of the client, and upload and delete calls in any interleaving.          *)
(***************************************************************************)
\* the most calls on the adapter
MaxOps == 3

\* upload and delete
OpKinds == { "upload", "delete" }

\* loadS3(): the cached promise, or a new import whose promise is cached
loadS3(cache, ls) ==
    IF cache = 0
    THEN [promise |-> Len(ls) + 1, loads |-> Append(ls, "pending")]
    ELSE [promise |-> cache, loads |-> ls]

\* getClient(): the cached promise, or a new one on loadS3() that is cached
getClient(cache, cs, moduleCache, ls) ==
    IF cache = 0
    THEN LET sdk == loadS3(moduleCache, ls)
         IN  [promise |-> Len(cs) + 1,
              clients |-> Append(cs, [load |-> sdk.promise, state |-> "pending"]),
              s3ModulePromise |-> sdk.promise,
              loads |-> sdk.loads]
    ELSE [promise |-> cache, clients |-> cs, s3ModulePromise |-> moduleCache,
          loads |-> ls]

AwsInit ==
    /\ contentType = "multipart/form-data; boundary=x"
    /\ opts = Merge(DEFAULT_OPTIONS, NoOptions)
    /\ pc = "idle"
    /\ registered = FALSE
    /\ piped = FALSE
    /\ payload = <<>>
    /\ files = <<>>
    /\ fileCount = 0
    /\ hasError = FALSE
    /\ totalFileSize = 0
    /\ streams = <<>>
    /\ promise = Pending
    /\ firstRaised = "none"
    /\ fieldEvents = 0
    /\ longField = FALSE
    /\ arrivals = <<>>
    /\ cin = <<>>
    /\ cout = Undefined
    /\ cback = Undefined
    /\ mw = "none"
    /\ nextCalls = <<>>
    /\ reqPayload = Undefined
    /\ calls = <<>>
    /\ hists = <<>>
    /\ defaults = DEFAULT_OPTIONS
    /\ inputs = <<>>
    /\ uploadOptions = <<>>
    /\ uploads = <<>>
    /\ settled = <<>>
    /\ many = NotCalled
    /\ data = <<>>
    /\ formData = <<>>
    /\ s3ModulePromise = 0
    /\ clientPromise = 0
    /\ loads = <<>>
    /\ clients = <<>>
    /\ ops = <<>>

\* upload(resolved) or delete(key) up to its await of getClient()
AwsCall(kind) ==
    /\ Len(ops) < MaxOps
    /\ LET got == getClient(clientPromise, clients, s3ModulePromise, loads)
       IN  /\ clientPromise' = got.promise
           /\ clients' = got.clients
           /\ s3ModulePromise' = got.s3ModulePromise
           /\ loads' = got.loads
           /\ ops' = Append(ops, [kind |-> kind, client |-> got.promise,
                                  state |-> "awaiting"])
    /\ UNCHANGED <<contentType, opts, pc, registered, piped, payload, files,
                   fileCount, hasError, totalFileSize, streams, promise,
                   firstRaised, fieldEvents, longField, arrivals, coerceVars,
                   mwVars, pairVars, storageVars, clientVars>>

\* import(pkg) settles: on failure the catch of loadS3 clears the module's
\* cache and throws
ImportSettles(k, ok) ==
    /\ k \in 1..Len(loads)
    /\ loads[k] = "pending"
    /\ loads' = [loads EXCEPT ![k] = IF ok THEN "loaded" ELSE "failed"]
    /\ s3ModulePromise' = IF ok THEN s3ModulePromise ELSE 0
    /\ UNCHANGED <<contentType, opts, pc, registered, piped, payload, files,
                   fileCount, hasError, totalFileSize, streams, promise,
                   firstRaised, fieldEvents, longField, arrivals, coerceVars,
                   mwVars, pairVars, storageVars, clientVars, clientPromise,
                   clients, ops>>

\* the then of getClient: buildS3Client, once the SDK is loaded
ClientThen(c) ==
    /\ c \in 1..Len(clients)
    /\ clients[c].state = "pending"
    /\ loads[clients[c].load] = "loaded"
    /\ clients' = [clients EXCEPT ![c].state = "built"]
    /\ UNCHANGED <<contentType, opts, pc, registered, piped, payload, files,
                   fileCount, hasError, totalFileSize, streams, promise,
                   firstRaised, fieldEvents, longField, arrivals, coerceVars,
                   mwVars, pairVars, storageVars, clientVars, s3ModulePromise,
                   clientPromise, loads, ops>>

\* a catch of getClient that rethrows and leaves the cache as it is
ClientCatchKeepsCache(c) ==
    /\ c \in 1..Len(clients)
    /\ clients[c].state = "pending"
    /\ loads[clients[c].load] = "failed"
    /\ clients' = [clients EXCEPT ![c].state = "rejected"]
    /\ UNCHANGED <<contentType, opts, pc, registered, piped, payload, files,
                   fileCount, hasError, totalFileSize, streams, promise,
                   firstRaised, fieldEvents, longField, arrivals, coerceVars,
                   mwVars, pairVars, storageVars, clientVars, s3ModulePromise,
                   clientPromise, loads, ops>>

\* the catch of getClient: the adapter's cache is cleared, the error rethrown
ClientCatch(c) ==
    /\ c \in 1..Len(clients)
    /\ clients[c].state = "pending"
    /\ loads[clients[c].load] = "failed"
    /\ clientPromise' = 0
    /\ clients' = [clients EXCEPT ![c].state = "rejected"]
    /\ UNCHANGED <<contentType, opts, pc, registered, piped, payload, files,
                   fileCount, hasError, totalFileSize, streams, promise,
                   firstRaised, fieldEvents, longField, arrivals, coerceVars,
                   mwVars, pairVars, storageVars, clientVars, s3ModulePromise,
                   loads, ops>>

\* the call resumes after its await: it sends its command with the client
\* of the promise it was given, or throws the error of that promise
OpResumes(o) ==
    /\ o \in 1..Len(ops)
    /\ ops[o].state = "awaiting"
    /\ clients[ops[o].client].state # "pending"
    /\ ops' = [ops EXCEPT ![o].state =
                  IF clients[ops[o].client].state = "built" THEN "sent"
                  ELSE "failed"]
    /\ UNCHANGED <<contentType, opts, pc, registered, piped, payload, files,
                   fileCount, hasError, totalFileSize, streams, promise,
                   firstRaised, fieldEvents, longField, arrivals, coerceVars,
                   mwVars, pairVars, storageVars, clientVars, s3ModulePromise,
                   clientPromise, loads, clients>>

AwsNext ==
    \/ \E kind \in OpKinds : AwsCall(kind)
    \/ \E k \in 1..MaxOps, ok \in BOOLEAN : ImportSettles(k, ok)
    \/ \E c \in 1..MaxOps : ClientThen(c)
    \/ \E c \in 1..MaxOps : ClientCatch(c)
    \/ \E o \in 1..MaxOps : OpResumes(o)

AwsSpec == AwsInit /\ [][AwsNext]_vars

(***************************************************************************)
(* What the claims speak of.                                               *)
(***************************************************************************)
Streams == 1..Len(streams)

\* the bytes buffered for sub-stream f
Buffered(f) == Len(concat(f.chunks))

RECURSIVE BufferedAll(_)
BufferedAll(ss) ==
    IF ss = <<>> THEN 0 ELSE Buffered(Head(ss)) + BufferedAll(Tail(ss))

\* the sub-streams accepted for buffering
Accepted == {i \in Streams : streams[i].listening}

Finite == opts.maxTotalFileSize # Infinity

\* the ParsedFile records a payload holds, bare or in a list
PayloadFiles(pl) ==
    {pl[i].v.v : i \in {j \in 1..Len(pl) : pl[j].v.t = "file"}}
    \cup UNION {{pl[i].v.v[k].v : k \in {j \in 1..Len(pl[i].v.v) : pl[i].v.v[j].t = "file"}}
                : i \in {j \in 1..Len(pl) : pl[j].v.t = "arr"}}

Rejected(reason) == promise.state = "rejected" /\ promise.reason = reason

\* a limit of the configuration is violated
FileLimitViolated ==
    \/ fileCount > opts.maxFiles
    \/ \E i \in Streams : streams[i].size > opts.maxFileSize
    \/ Finite /\ totalFileSize > opts.maxTotalFileSize

FieldLimitViolated ==
    \/ fieldEvents > opts.maxFields
    \/ longField

(***************************************************************************)
(* C1..C10                                                                 *)
(***************************************************************************)
C1_FirstFailureSurfaced ==
    firstRaised # "none" => Rejected(firstRaised)

C1_Settled == promise.state # "pending" => promise' = promise

C2_NoPayloadOnViolation ==
    /\ (FileLimitViolated \/ FieldLimitViolated) => promise.state # "resolved"
    /\ promise.state = "resolved" =>
          pc = "finished" /\ ~hasError /\ firstRaised = "none"

\* C3: the bytes buffered for any single file are at most maxFileSize, the
\* bytes buffered across all files are at most maxTotalFileSize when it is
\* finite, and at most maxFiles files are accepted for buffering.
C3_BufferedWithinLimits ==
    /\ \A i \in Streams : Buffered(streams[i]) <= opts.maxFileSize
    /\ Finite => BufferedAll(streams) <= opts.maxTotalFileSize
    /\ Cardinality(Accepted) <= opts.maxFiles
    /\ \A i \in 1..Len(files) : Len(files[i].buffer) <= opts.maxFileSize

\* the limits are reached and a further chunk has been refused
C3_Witness ==
    /\ Finite
    /\ BufferedAll(streams) = opts.maxTotalFileSize
    /\ Cardinality(Accepted) = opts.maxFiles
    /\ \E i \in Streams : streams[i].fileSizeExceeded

C4_Exact ==
    /\ \A i \in Streams :
          streams[i].fileSizeExceeded =>
              \/ streams[i].size > opts.maxFileSize
              \/ Finite /\ totalFileSize > opts.maxTotalFileSize
    /\ promise.state = "resolved" =>
          \A i \in Streams :
              streams[i].offset = opts.maxFileSize =>
                  \E f \in PayloadFiles(promise.value) :
                      /\ f.originalname = i
                      /\ f.size = opts.maxFileSize
                      /\ Len(f.buffer) = opts.maxFileSize

C4_OneOver ==
    (/\ promise.state = "pending"
     /\ \E i \in Streams : /\ streams[i].size <= opts.maxFileSize
                           /\ streams'[i].size > opts.maxFileSize)
    => promise'.state = "rejected" /\ promise'.reason = "FileTooLarge"

C5_NextFile ==
    (/\ promise.state = "pending"
     /\ fileCount = opts.maxFiles
     /\ fileCount' = opts.maxFiles + 1)
    => /\ promise'.state = "rejected"
       /\ promise'.reason = "TooManyFiles"
       /\ hasError'

C5_Dropped ==
    /\ \A i \in Streams :
          i > opts.maxFiles =>
              /\ streams[i].chunks = <<>>
              /\ streams[i].flowing
              /\ \A k \in 1..Len(files) : files[k].originalname # i
    /\ Rejected("TooManyFiles") => fileCount > opts.maxFiles

\* C5: in an ingestion that has not failed yet the (maxFiles + 1)-th file
\* event makes the ingestion fail with the too-many-files failure; whatever
\* that file's size none of its bytes is buffered, it is never recorded, and
\* its sub-stream is drained.
C5_TooManyFiles == [][C5_NextFile]_vars /\ []C5_Dropped

\* the file over the count has delivered bytes, and all of them were dropped
C5_Witness ==
    /\ Rejected("TooManyFiles")
    /\ \E i \in Streams : /\ i = opts.maxFiles + 1
                          /\ streams[i].offset > 0
                          /\ streams[i].status = "ended"

\* C6: the (maxFields + 1)-th field event makes parseMultipart fail with a
\* too-many-fields failure, and the payload never holds more than maxFields
\* fields.
C6_TooManyFields ==
    fieldEvents > opts.maxFields => Rejected("TooManyFields")

\* C7: a field event whose value is longer than maxFieldSize makes
\* parseMultipart fail with a field-too-large failure.
C7_FieldTooLarge ==
    longField => Rejected("FieldTooLarge")

C8_Crossing ==
    /\ promise.state = "pending"
    /\ Finite
    /\ totalFileSize <= opts.maxTotalFileSize
    /\ totalFileSize' > opts.maxTotalFileSize

C8_FileCrossing ==
    \E i \in Streams : /\ streams[i].size <= opts.maxFileSize
                       /\ streams'[i].size > opts.maxFileSize

C8_NotBuffered == \A i \in Streams : streams'[i].chunks = streams[i].chunks

C8_OriginalStep ==
    C8_Crossing =>
        /\ promise'.state = "rejected"
        /\ promise'.reason = "TotalSizeExceeded"
        /\ C8_NotBuffered

\* C8 as claimed: with a finite maxTotalFileSize the chunk that brings the
\* bytes of all files above maxTotalFileSize makes the ingestion fail with the
\* total-size failure and is not buffered.
C8_Original == [][C8_OriginalStep]_vars

C8_AmendedStep ==
    C8_Crossing =>
        /\ promise'.state = "rejected"
        /\ promise'.reason =
              IF C8_FileCrossing THEN "FileTooLarge" ELSE "TotalSizeExceeded"
        /\ C8_NotBuffered

C8_OnlyAbove ==
    Rejected("TotalSizeExceeded") =>
        /\ Finite
        /\ totalFileSize > opts.maxTotalFileSize
        /\ BufferedAll(streams) <= opts.maxTotalFileSize

\* C8 as amended: with a finite maxTotalFileSize the chunk that brings the
\* bytes of all files above maxTotalFileSize makes an ingestion that has not
\* failed yet fail and is not buffered; the failure is the total-size failure
\* unless the same chunk also takes its own file above maxFileSize, when it
\* is the file-too-large failure.  The total-size failure is raised only
\* above a finite maxTotalFileSize: never at exactly maxTotalFileSize and
\* never with the default, unbounded one.
C8_TotalSize == [][C8_AmendedStep]_vars /\ []C8_OnlyAbove

\* the total-size failure with every file within maxFileSize
C8_Witness ==
    /\ Rejected("TotalSizeExceeded")
    /\ \A i \in Streams : streams[i].size <= opts.maxFileSize

C9_Flowing == \A i \in Streams : streams[i].flowing

\* C9: after a failure every file sub-stream, open at that moment or opened
\* later, is flowing (resumed or given a data listener), so that it is read
\* to its end and the decoder reaches finish although the promise has
\* already rejected.
C9_Drain == []C9_Flowing /\ (hasError ~> pc = "finished")

\* finish after a limit failure: the sub-stream open at the failure was read
\* beyond what was counted, and a sub-stream opened after the failure, with
\* its listeners, was read to its end without a byte counted
C9_Witness ==
    /\ pc = "finished"
    /\ Rejected("LimitExceeded")
    /\ Len(streams) = 2
    /\ streams[1].offset > streams[1].size
    /\ streams[1].status = "ended"
    /\ streams[2].listening
    /\ streams[2].offset > 0
    /\ streams[2].size = 0
    /\ streams[2].status = "ended"

\* C10: a call whose content-type header is absent, not a string or not a
\* multipart declaration with a boundary rejects at once, with no handler
\* registered and the request not piped.
C10_RejectsNonMultipart ==
    (contentType # "multipart/form-data; boundary=x" /\ pc # "called")
    => /\ pc = "returned"
       /\ promise.state = "rejected"
       /\ ~registered
       /\ ~piped

\* the events that arrived under a name, in their order
Occurrences(name) == SelectSeq(arrivals, LAMBDA e : e.name = name)

ArrivedNames == {arrivals[i].name : i \in 1..Len(arrivals)}

\* the names that arrived, each once, in the order of their first occurrence
RECURSIVE FirstOccurrences(_, _)
FirstOccurrences(es, seen) ==
    IF es = <<>> THEN <<>>
    ELSE IF Head(es).name \in seen THEN FirstOccurrences(Tail(es), seen)
    ELSE <<Head(es).name>> \o
         FirstOccurrences(Tail(es), seen \cup {Head(es).name})

Resolved == promise.state = "resolved"

\* C11: the payload of an ingestion that stayed within all limits and ended
\* with finish has exactly one key for each distinct field or file name that
\* arrived, and no other key.
C11_OneKeyPerName ==
    Resolved =>
        /\ {Keys(promise.value)[i] : i \in 1..Len(Keys(promise.value))} = ArrivedNames
        /\ Len(Keys(promise.value)) = Cardinality(ArrivedNames)

\* C12: a name that occurred once holds its bare value, and a name under
\* which k >= 2 field values arrived holds a list of exactly k elements whose
\* i-th element is the i-th value that arrived, whatever the kind of the
\* values, a JSON array included.
C12_AggregationShape ==
    Resolved =>
        \A n \in ArrivedNames :
            LET occ == Occurrences(n)
                held == Get(promise.value, n)
            IN  (\A i \in 1..Len(occ) : occ[i].kind = "field") =>
                    IF Len(occ) = 1
                    THEN held = occ[1].value
                    ELSE held = Arr([i \in 1..Len(occ) |-> occ[i].value])

\* C13: a field and a file that arrive under the same name are aggregated
\* into one list in arrival order: the i-th element of the list is a file
\* exactly when the i-th event under that name was a file event.
C13_FieldAndFileInArrivalOrder ==
    Resolved =>
        \A n \in ArrivedNames :
            LET occ == Occurrences(n)
                held == Get(promise.value, n)
            IN  (\E i, j \in 1..Len(occ) : occ[i].kind = "field" /\ occ[j].kind = "file")
                => /\ held.t = "arr"
                   /\ Len(held.v) = Len(occ)
                   /\ \A i \in 1..Len(occ) :
                         (held.v[i].t = "file") = (occ[i].kind = "file")

\* C14: the keys of the resolved payload are in the order in which each
\* distinct name first occurred in the event stream, fields and files taken
\* together.
C14_KeysInFirstOccurrenceOrder ==
    Resolved => Keys(promise.value) = FirstOccurrences(arrivals, {})

Same(x, y) == x.t = y.t /\ x.v = y.v

Coerced == pc \in {"coerced", "recoerced"}

TrueText == <<"t","r","u","e">>

FalseText == <<"f","a","l","s","e">>

\* the value is delimited by braces or by brackets
Delimited(value) ==
    \/ startsWith(value, "{") /\ endsWith(value, "}")
    \/ startsWith(value, "[") /\ endsWith(value, "]")

\* the JSON step, the number step, the boolean step has a result
JSONStep(value, options) ==
    options.autoParseJSON /\ Delimited(value) /\ JSONparse(value).ok

NumberStep(value, options) ==
    options.autoParseNumbers /\ ~isNaN(Number(value)) /\ trim(value) # <<>>

BooleanStep(value, options) ==
    options.autoParseBooleans /\ value \in {TrueText, FalseText}

\* C15: autoParse is total: for every input string and every setting of the
\* three flags it returns a value and never throws; when the JSON parse of a
\* delimited value fails the result is not a structure but what the later
\* steps give, and when no step applies the result is the input string.
C15_Total ==
    Coerced =>
        /\ cout.t \in {"str", "num", "inf", "bool", "arr", "obj"}
        /\ (Delimited(cin) /\ ~JSONparse(cin).ok) => cout.t \notin {"arr", "obj"}
        /\ (/\ ~JSONStep(cin, opts)
            /\ ~NumberStep(cin, opts)
            /\ ~BooleanStep(cin, opts)) => Same(cout, Str(cin))

\* a delimited text that is not JSON came back as the string it was
C15_Witness ==
    /\ pc = "coerced"
    /\ opts.autoParseJSON
    /\ cin = <<"[", "x", "]">>
    /\ Same(cout, Str(cin))

\* the reference procedure: JSON, then boolean, then number, then the string
Reference(value, options) ==
    IF JSONStep(value, options) THEN JSONparse(value).val
    ELSE IF BooleanStep(value, options) THEN Bool(value = TrueText)
    ELSE IF NumberStep(value, options) THEN Number(value)
    ELSE Str(value)

\* C16: for every input string and every setting of the flags autoParse
\* returns what the reference procedure returns that tries JSON, then
\* boolean, then number, then the unchanged string, each step only when its
\* flag is on.
C16_AsReference ==
    Coerced => Same(cout, Reference(cin, opts))

\* a boolean word with the number and boolean steps both on
C16_Witness ==
    /\ pc = "coerced"
    /\ opts.autoParseNumbers
    /\ opts.autoParseBooleans
    /\ cin = TrueText
    /\ Same(cout, Bool(TRUE))

C18_StringsWithoutJSON ==
    (/\ Coerced
     /\ ~opts.autoParseJSON
     /\ opts.autoParseNumbers
     /\ opts.autoParseBooleans) => Same(cout, Str(cin))

\* C19 as claimed: for every string that autoParse turns into a JSON value,
\* a number or a boolean, autoParse of the text of that value gives the same
\* value.
C19_Original ==
    pc = "recoerced" => Same(cback, cout)

\* the value holds a number that is not finite
RECURSIVE HoldsInfinity(_)
HoldsInfinity(x) ==
    IF x.t = "inf" THEN TRUE
    ELSE IF x.t = "arr" THEN \E i \in 1..Len(x.v) : HoldsInfinity(x.v[i])
    ELSE IF x.t = "obj" THEN \E i \in 1..Len(x.v) : HoldsInfinity(x.v[i].v)
    ELSE FALSE

\* C19 as amended: for every string that autoParse turns into a number, a
\* boolean, or a JSON value that holds no number beyond the range of the
\* finite numbers, autoParse of the text of that value gives the same value.
C19_Idempotent ==
    (pc = "recoerced" /\ (cout.t \in {"arr", "obj"} => ~HoldsInfinity(cout)))
    => Same(cback, cout)

\* a structure whose text is not the text it was parsed from
C19_Witness ==
    /\ pc = "recoerced"
    /\ cout.t = "obj"
    /\ representation(cout) # cin
    /\ Same(cback, cout)

\* the media type of a header: the text before the first semicolon
MediaType(text) ==
    IF \E i \in 1..Len(text) : text[i] = ";"
    THEN SubSeq(text, 1, (CHOOSE i \in 1..Len(text) :
                             text[i] = ";" /\ \A j \in 1..(i - 1) : text[j] # ";") - 1)
    ELSE text

DeclaresMultipart(ct) == MediaType(HeaderText(ct)) = MultipartText

\* C20: for a request whose content-type header is absent or does not
\* declare multipart/form-data the middleware calls next exactly once with
\* no argument, leaves req.payload unset, and neither starts an ingestion nor
\* reads the request stream.
C20_SkipsNonMultipart ==
    ~DeclaresMultipart(contentType) =>
        /\ pc = "idle"
        /\ ~registered
        /\ ~piped
        /\ isUndefined(reqPayload)
        /\ mw = "done" => nextCalls = <<"none">>
        /\ mw # "done" => nextCalls = <<>>

C22_Independent ==
    /\ defaults = DEFAULT_OPTIONS
    /\ \A k \in 1..Len(calls) :
          calls[k] = Alone(NewCall(calls[k].contentType, calls[k].options),
                           hists[k], DEFAULT_OPTIONS)

\* two calls with different options, interleaved: one has failed for its file
\* count or size while the other, called after it, buffers a file
C22_Witness ==
    /\ Len(calls) = 2
    /\ calls[1].options # calls[2].options
    /\ \E k \in 1..2 :
          /\ calls[k].promise.state = "rejected"
          /\ calls[k].hasError
          /\ calls[3 - k].pc = "running"
          /\ ~calls[3 - k].hasError
          /\ calls[3 - k].totalFileSize > 0
          /\ hists[k][1][1] = "call"
          /\ Len(hists[k]) > 1

\* the configuration the documentation promises a call with these options
Effective(options) ==
    [k \in DOMAIN DocumentedDefaults |->
        IF k \in DOMAIN options THEN options[k] ELSE DocumentedDefaults[k]]

C23_AsDocumented ==
    \A k \in 1..Len(calls) :
        calls[k].pc # "called" => calls[k].opts = Effective(calls[k].options)

C23_Kept ==
    \A k \in 1..Len(calls) :
        calls[k].pc # "called" => calls'[k].opts = calls[k].opts

\* C23: the effective configuration of an ingestion equals the documented
\* defaults (maxFileSize 10 MiB, maxFiles 10, maxFields 100, maxFieldSize
\* 64 KiB, maxTotalFileSize unbounded, the three autoParse flags true)
\* overridden by exactly the options the caller supplied, each option
\* independently; it is built once per call and no event changes it.
C23_EffectiveConfiguration == []C23_AsDocumented /\ [][C23_Kept]_vars

\* a call that overrode one option only, after the events of a whole form
C23_Witness ==
    /\ Len(calls) = 1
    /\ calls[1].pc = "finished"
    /\ Len(hists[1]) = MaxPairEvents
    /\ DOMAIN calls[1].options = {"maxTotalFileSize"}
    /\ calls[1].opts.maxTotalFileSize = 1
    /\ calls[1].opts.maxFiles = 10
    /\ calls[1].opts.autoParseNumbers

C24_Parallel ==
    \A k \in 1..Len(uploads) :
        uploads[k].state = "fulfilled" =>
            \A j \in 1..Len(uploads) : uploads[j].state # "unstarted"

C24_InOrder ==
    many.state = "resolved" =>
        /\ Len(many.value) = Len(inputs)
        /\ \A k \in 1..Len(inputs) :
              /\ many.value[k] = uploads[k].value
              /\ many.value[k].key[1] = k
              /\ many.value[k].size = inputs[k].size

C24_AnyOrder ==
    \A k, j \in 1..Len(uploads) :
        (uploads[k].state = "pending" /\ uploads[j].state = "pending") =>
            /\ ENABLED ProviderSettles(k, TRUE)
            /\ ENABLED ProviderSettles(j, TRUE)

\* C24: storage.uploadMany starts the upload of every input before any of
\* them completes (the uploads run in parallel: any that is under way may be
\* the next to finish, the second before the first), and the array it
\* resolves with has one result per input in the order of the inputs,
\* whatever the order in which the uploads complete.
C24_UploadMany == C24_Parallel /\ C24_InOrder /\ C24_AnyOrder

\* the second upload finished before the first, and the results are in the
\* order of the inputs
C24_Witness ==
    /\ Len(inputs) >= 2
    /\ many.state = "resolved"
    /\ settled[1] = 2
    /\ settled[2] = 1
    /\ many.value[1].key[1] = 1
    /\ many.value[2].key[1] = 2

\* a string that Number reads as a number
Numeric(text) == ~isNaN(Number(text)) /\ trim(text) # <<>>

\* a string that no step of autoParse changes
Plain(text) ==
    /\ ~Numeric(text)
    /\ text \notin {TrueText, FalseText}
    /\ ~(Delimited(text) /\ JSONparse(text) # ParseFail)

\* the value the client sent under its one key, and the key
SentValue == data[1].v

SentKey == data[1].k

Arrived == mw = "done" /\ Resolved

\* the values that C25 speaks of: a finite number, a nested plain object, an
\* array of two or more of these or of non-numeric strings
C25_Claimed ==
    \/ SentValue.t \in {"num", "obj"}
    \/ /\ SentValue.t = "arr"
       /\ Len(SentValue.v) >= 2
       /\ \A i \in 1..Len(SentValue.v) :
             \/ SentValue.v[i].t \in {"num", "obj"}
             \/ SentValue.v[i].t = "str" /\ ~Numeric(SentValue.v[i].v)

C25_Covered ==
    /\ SentKey \notin ObjectPrototype
    /\ \/ SentValue.t = "num"
       \/ SentValue.t = "obj" /\ ~HoldsInfinity(SentValue)
       \/ /\ SentValue.t = "arr"
          /\ Len(SentValue.v) >= 2
          /\ \A i \in 1..Len(SentValue.v) :
                \/ SentValue.v[i].t = "num"
                \/ SentValue.v[i].t = "obj" /\ ~HoldsInfinity(SentValue.v[i])
                \/ SentValue.v[i].t = "str" /\ Plain(SentValue.v[i].v)

C26_Frozen == firstRaised # "none" => payload' = payload

\* C26: once a failure has been raised, no later event changes the payload:
\* a field event that arrives after the failure neither adds an entry to the
\* payload nor modifies an existing one.
C26_NoPayloadChangeAfterFailure == [][C26_Frozen]_vars

\* the failures that a limit raises
LimitFailures ==
    {"TooManyFiles", "FileTooLarge", "TotalSizeExceeded", "LimitExceeded"}

\* a limit failure has been raised: each of them sets hasError, whether it
\* is the first failure or comes after a decoder error
LimitFailed == hasError

C27_Inert ==
    LimitFailed =>
        /\ \A i \in Streams : /\ streams'[i].chunks = streams[i].chunks
                              /\ streams'[i].size = streams[i].size
        /\ \A i \in 1..Len(streams') :
              i > Len(streams) => streams'[i].chunks = <<>> /\ streams'[i].size = 0
        /\ totalFileSize' = totalFileSize
        /\ files' = files

\* C27: once a limit failure has been raised, no later chunk of any file
\* (the failing file or any file started afterwards) is added to a buffer or
\* counted, and no file that ends afterwards is added to the list of parsed
\* files.
C27_InertAfterLimitFailure == [][C27_Inert]_vars

\* after a limit failure a file with its listeners was read further, to its
\* end: the bytes after the failure were not counted and it was not recorded
C27_Witness ==
    /\ LimitFailed
    /\ firstRaised \in LimitFailures
    /\ files = <<>>
    /\ \E i \in Streams : /\ streams[i].listening
                          /\ streams[i].offset > streams[i].size
                          /\ streams[i].status = "ended"

\* a failure of any kind has been raised
Failed == firstRaised # "none"

\* the failed state: hasError is set, or the call returned before it
\* registered a handler, and no event can reach it
C28_FailedState == Failed => hasError \/ pc = "returned"

C28_Inert ==
    Failed =>
        /\ \A i \in Streams : streams'[i].chunks = streams[i].chunks
        /\ files' = files
        /\ (pc = "running" /\ pc' = "finished") =>
              payload' = payload /\ promise'.state # "resolved"

\* C28: every failure kind puts the controller in the failed state,
\* including a decoder error event and a file sub-stream error: after either
\* of them, later chunks are not buffered, later files are not recorded, and
\* a later finish event does not build or resolve a payload.
C28_EveryFailureTerminal == []C28_FailedState /\ [][C28_Inert]_vars

\* the failure kinds of the limits violated in a state; a chunk that takes
\* its file above maxFileSize and the total above maxTotalFileSize is a
\* file-too-large violation
ViolationKinds ==
    (IF fieldEvents > opts.maxFields THEN {"TooManyFields"} ELSE {})
    \cup (IF longField THEN {"FieldTooLarge"} ELSE {})
    \cup (IF fileCount > opts.maxFiles THEN {"TooManyFiles"} ELSE {})
    \cup (IF \E i \in Streams : streams[i].size > opts.maxFileSize
          THEN {"FileTooLarge"}
          ELSE IF Finite /\ totalFileSize > opts.maxTotalFileSize
          THEN {"TotalSizeExceeded"}
          ELSE {})

C29_FirstViolation ==
    (promise.state = "pending" /\ ViolationKinds = {} /\ ViolationKinds' # {}) =>
        /\ promise'.state = "rejected"
        /\ promise'.reason \in ViolationKinds'

\* C29: the failure surfaced is the one raised by the first event, in arrival
\* order, that violates any limit: the event that is the first to violate a
\* limit of an ingestion that has not failed rejects the promise with the
\* failure of that limit; when one chunk makes both the per-file size exceed
\* maxFileSize and the aggregate exceed maxTotalFileSize, the file-too-large
\* failure is the one surfaced.
C29_FirstViolationSurfaced == [][C29_FirstViolation]_vars

\* the values a payload holds, bare or in a list, that are not files
RECURSIVE FieldValueCount(_)
FieldValueCount(pl) ==
    IF pl = <<>> THEN 0
    ELSE LET x == Head(pl).v
             here == IF x.t = "arr"
                     THEN Cardinality({i \in 1..Len(x.v) : x.v[i].t # "file"})
                     ELSE IF x.t = "file" THEN 0 ELSE 1
         IN  here + FieldValueCount(Tail(pl))

\* the sub-streams that ended with their listeners on
Ended == {i \in Streams : streams[i].status = "ended" /\ streams[i].listening}

C30_Outcome ==
    pc = "finished" =>
        IF Failed
        THEN promise.state = "rejected"
        ELSE /\ Resolved
             /\ promise.value = payload
             /\ FieldValueCount(promise.value) = fieldEvents
             /\ PayloadFiles(promise.value) = {ParsedFile(streams[i]) : i \in Ended}
             /\ Cardinality(PayloadFiles(promise.value)) = Cardinality(Ended)

C30_Emitted == pc = "finished" \/ firstRaised = "DecoderError"

\* C30: every ingestion eventually settles, provided the decoder eventually
\* emits finish or error: the promise is settled once either has been
\* emitted, and it is settled eventually when the decoder comes to its
\* finish; if finish arrives while no failure has been raised the promise
\* resolves with the payload holding every field and every file that ended,
\* otherwise it is rejected.
C30_Settles ==
    /\ [](C30_Emitted => promise.state # "pending")
    /\ []C30_Outcome
    /\ <>(promise.state # "pending")

\* finish with no failure: the payload resolved holds two fields and a file
\* with its bytes
C30_Witness ==
    /\ pc = "finished"
    /\ Resolved
    /\ fieldEvents = 2
    /\ FieldValueCount(promise.value) = 2
    /\ \E f \in PayloadFiles(promise.value) : f.size > 0

(***************************************************************************)
(* C31..C38.                                                               *)
(***************************************************************************)
\* C31: with autoParseJSON on, a value whose trimmed text is delimited by
\* braces or by brackets and is valid JSON is returned as the parsed
\* structure, also when the raw value carries leading or trailing
\* whitespace.
C31_TrimmedJSON ==
    (/\ Coerced
     /\ opts.autoParseJSON
     /\ Delimited(trim(cin))
     /\ JSONparse(trim(cin)).ok) => Same(cout, JSONparse(trim(cin)).val)

\* the text of Infinity
InfinityText == <<"I","n","f","i","n","i","t","y">>

\* the whole text is a numeric literal: digits or Infinity, with or without
\* a sign, blanks around it allowed
NumericLiteral(text) ==
    LET w == trim(text)
        body == IF w # <<>> /\ w[1] \in {"-", "+"} THEN Tail(w) ELSE w
    IN  \/ body = InfinityText
        \/ body # <<>> /\ \A i \in 1..Len(body) : IsDigit(body[i])

\* C32: with autoParseNumbers on, autoParse returns a number exactly when
\* the whole value parses as a numeric literal and the value is non-empty
\* after trimming; the empty string and whitespace-only strings are returned
\* unchanged as strings, never as the number 0.
C32_NumbersExactly ==
    (Coerced /\ opts.autoParseNumbers) =>
        /\ (cout.t \in {"num", "inf"}) =
               (NumericLiteral(cin) /\ trim(cin) # <<>>)
        /\ cout.t \in {"num", "inf"} => Same(cout, Number(cin))
        /\ trim(cin) = <<>> => Same(cout, Str(cin))

\* a blank came back as the string it was, with the number step on
C32_Witness ==
    /\ pc = "coerced"
    /\ opts.autoParseNumbers
    /\ cin = <<" ">>
    /\ Same(cout, Str(cin))

\* the three flags
Flags == {"autoParseJSON", "autoParseNumbers", "autoParseBooleans"}

\* the flag of the step that gave the value, "none" for the unchanged string
StepOf(x) ==
    IF x.t \in {"arr", "obj"} THEN "autoParseJSON"
    ELSE IF x.t \in {"num", "inf"} THEN "autoParseNumbers"
    ELSE IF x.t = "bool" THEN "autoParseBooleans"
    ELSE "none"

Received(f) == [k \in 1..f.offset |-> k]

\* the file is the record of sub-stream f: the names of its file event, all
\* the bytes received for it
RecordOf(file, f) ==
    /\ file.fieldname = f.fieldname
    /\ file.originalname = f.info.filename
    /\ file.encoding = f.info.encoding
    /\ file.mimetype = f.info.mimeType
    /\ file.size = f.offset
    /\ file.buffer = Received(f)

C34_Resolved ==
    Resolved =>
        \A file \in PayloadFiles(promise.value) :
            /\ Len(file.buffer) = file.size
            /\ file.size <= opts.maxFileSize
            /\ \E i \in Streams : /\ streams[i].status = "ended"
                                  /\ RecordOf(file, streams[i])

C34_Recorded ==
    files' # files =>
        /\ ~hasError
        /\ \E i \in Streams : /\ streams[i].status = "open"
                              /\ streams'[i].status = "ended"
                              /\ ~streams[i].fileSizeExceeded
                              /\ Len(files') = Len(files) + 1
                              /\ SubSeq(files', 1, Len(files)) = files
                              /\ RecordOf(files'[Len(files')], streams[i])

\* C34: every file in a resolved payload has size equal to the sum of the
\* lengths of the chunks received for it, a buffer that is those chunks
\* concatenated in arrival order (so buffer length = size <= maxFileSize),
\* and fieldname, originalname, encoding and mimetype equal to those of its
\* file event; a file is recorded only when its sub-stream ended with no
\* failure recorded.
C34_FilesFaithful == []C34_Resolved /\ [][C34_Recorded]_vars

\* a resolved payload with a file that arrived in two chunks
C34_Witness ==
    /\ Resolved
    /\ \E i \in Streams :
          /\ Len(streams[i].chunks) = 2
          /\ \E file \in PayloadFiles(promise.value) : RecordOf(file, streams[i])

\* the value is a built-in of the language, bare or in a list
HoldsBuiltin(x) ==
    \/ x.t = "builtin"
    \/ x.t = "arr" /\ \E i \in 1..Len(x.v) : x.v[i].t = "builtin"

\* the value stored is the bare value of the event
BareValueOf(held, e) ==
    IF e.kind = "field" THEN held = e.value
    ELSE held.t = "file" /\ held.v.originalname = e.value

\* C35: for every field or file name, the names of built-in object
\* properties such as 'constructor' or '__proto__' included, a single
\* occurrence is stored in the payload as the bare value, and the payload
\* never holds a value that did not come from a field or file event.
C35_BuiltinNames ==
    /\ \A i \in 1..Len(payload) : ~HoldsBuiltin(payload[i].v)
    /\ Resolved =>
          \A n \in ArrivedNames :
              Len(Occurrences(n)) = 1 =>
                  /\ HasOwn(promise.value, n)
                  /\ BareValueOf(Own(promise.value, n), Occurrences(n)[1])

\* the options of the call that were passed as undefined
PassedUndefined(c) == {o \in DOMAIN c.options : c.options[o] = UndefinedOption}

\* C36: an option passed with the value undefined leaves the default of
\* that option in force: the file-count, per-file-size and total-size checks
\* are never disabled by an undefined option value.
C36_UndefinedKeepsDefault ==
    \A k \in 1..Len(calls) :
        calls[k].pc # "called" =>
            /\ \A o \in PassedUndefined(calls[k]) :
                  calls[k].opts[o] = DEFAULT_OPTIONS[o]
            /\ "maxFiles" \in PassedUndefined(calls[k]) =>
                  TooManyFiles(DefaultMaxFiles + 1, calls[k].opts)
            /\ "maxFileSize" \in PassedUndefined(calls[k]) =>
                  GreaterThan(DefaultMaxFileSize + 1, calls[k].opts.maxFileSize)

\* the promises of getClient whose client was built
Built == {c \in 1..Len(clients) : clients[c].state = "built"}

\* one client at most, and every call that sends a command uses it
C37_OneClient ==
    /\ Cardinality(Built) <= 1
    /\ \A o \in 1..Len(ops) : ops[o].state = "sent" => ops[o].client \in Built

\* a cache never holds a promise that has rejected
C37_Cleared ==
    /\ clientPromise # 0 => clients[clientPromise].state # "rejected"
    /\ s3ModulePromise # 0 => loads[s3ModulePromise] # "failed"

\* a call is never given a promise that has rejected, and a call that finds
\* the caches cleared loads the SDK again
C37_Retry ==
    Len(ops') > Len(ops) =>
        /\ clients'[ops'[Len(ops')].client].state # "rejected"
        /\ (Len(clients) > 0 /\ clientPromise = 0) =>
               /\ Len(loads') = Len(loads) + 1
               /\ loads'[clients'[ops'[Len(ops')].client].load] = "pending"

\* C37: on one AWS storage adapter, for any interleaving of upload and
\* delete calls, the S3 client is built at most once as long as loading the
\* SDK succeeds and every call uses that same client; when loading fails,
\* the cached promise is cleared so that the next call tries to load again
\* instead of reusing the failure.
C37_ClientCache == []C37_OneClient /\ []C37_Cleared /\ [][C37_Retry]_vars

\* the first load failed and its call with it; the calls after it, an upload
\* and a delete, loaded again and sent their commands with one client
C37_Witness ==
    /\ Len(ops) = 3
    /\ ops[1].state = "failed"
    /\ ops[2].state = "sent"
    /\ ops[3].state = "sent"
    /\ ops[2].kind # ops[3].kind
    /\ ops[2].client = ops[3].client
    /\ loads = <<"failed", "loaded">>
    /\ Cardinality(Built) = 1

\* C38: a boolean sent with payload() under its default options and
\* ingested by parser() under its default options arrives in req.payload as
\* the same boolean (here under a key that Object.prototype does not
\* define).
C38_BooleanRoundTrip ==
    (Arrived /\ SentValue.t = "bool" /\ SentKey \notin ObjectPrototype) =>
        Get(reqPayload.v, SentKey) = SentValue

====
